---- MODULE Spec2Model ----
(***************************************************************************)
(* A model of the Chess Master Pro engine (DEADSAW/CHESSGAME): board       *)
(* primitives, attack detection, move generation, make-move, evaluation,   *)
(* the alpha-beta search driver with its transposition, killer and history *)
(* tables, the difficulty layer and the worker plumbing.                   *)
(*                                                                         *)
(* Encoding.  A square is an index 0..63 (rank * 8 + file).  A piece is a  *)
(* number: 0 is the empty square (null), 1..6 are the white pawn, knight,  *)
(* bishop, rook, queen, king and 7..12 the black ones, i.e. the engine's   *)
(* getPieceIndex(type, color) + 1.  A board is a function 0..63 -> 0..12.  *)
(* A move is a record with the fields of the Move interface; an absent     *)
(* captured piece or promotion is 0.                                       *)
(***************************************************************************)
EXTENDS Integers, Sequences, FiniteSets, TLC

\* ------------------------------------------------------------------------
\* Types (src/src/types/index.ts)
\* ------------------------------------------------------------------------
WHITE == "w"
BLACK == "b"

PAWN == 1
KNIGHT == 2
BISHOP == 3
ROOK == 4
QUEEN == 5
KING == 6

NoPiece == 0
NoSquare == -1

makePiece(type, color) == IF color = WHITE THEN type ELSE type + 6
pieceType(p) == IF p > 6 THEN p - 6 ELSE p
pieceColor(p) == IF p > 6 THEN BLACK ELSE WHITE
oppositeColor(color) == IF color = WHITE THEN BLACK ELSE WHITE

\* ------------------------------------------------------------------------
\* Board constants and square utilities (engine/board/constants)
\* ------------------------------------------------------------------------
NUM_SQUARES == 64

\* JavaScript's remainder takes the sign of the dividend.
JsRem(a, n) == IF a >= 0 THEN a % n ELSE -((-a) % n)

toSquareIndex(file, rank) == rank * 8 + file
getFile(square) == JsRem(square, 8)
getRank(square) == square \div 8
isValidFileRank(file, rank) == file >= 0 /\ file < 8 /\ rank >= 0 /\ rank < 8
Abs(x) == IF x < 0 THEN -x ELSE x

KING_START(color) == IF color = WHITE THEN 4 ELSE 60
\* wing: "K" kingside, "Q" queenside
ROOK_START(color, wing) ==
    IF color = WHITE THEN (IF wing = "K" THEN 7 ELSE 0)
                     ELSE (IF wing = "K" THEN 63 ELSE 56)
CASTLING_KING_DEST(color, wing) ==
    IF color = WHITE THEN (IF wing = "K" THEN 6 ELSE 2)
                     ELSE (IF wing = "K" THEN 62 ELSE 58)
CASTLING_ROOK_DEST(color, wing) ==
    IF color = WHITE THEN (IF wing = "K" THEN 5 ELSE 3)
                     ELSE (IF wing = "K" THEN 61 ELSE 59)
CASTLING_PATH(color, wing) ==
    IF color = WHITE THEN (IF wing = "K" THEN <<5, 6>> ELSE <<3, 2>>)
                     ELSE (IF wing = "K" THEN <<61, 62>> ELSE <<59, 58>>)
CASTLING_EMPTY(color, wing) ==
    IF color = WHITE THEN (IF wing = "K" THEN <<5, 6>> ELSE <<1, 2, 3>>)
                     ELSE (IF wing = "K" THEN <<61, 62>> ELSE <<57, 58, 59>>)

KNIGHT_MOVES == <<17, 15, -15, -17, 10, -6, 6, -10>>
KING_MOVES == <<8, -8, 1, -1, 9, 7, -7, -9>>
ROOK_DIRECTIONS == <<8, -8, 1, -1>>
BISHOP_DIRECTIONS == <<9, 7, -7, -9>>
QUEEN_DIRECTIONS == ROOK_DIRECTIONS \o BISHOP_DIRECTIONS

\* The file and rank step the generator's if-chains take for a DIRECTION.
DirFileStep(direction) ==
    CASE direction \in {1, 9, -7} -> 1
      [] direction \in {-1, 7, -9} -> -1
      [] OTHER -> 0
DirRankStep(direction) ==
    CASE direction \in {8, 9, 7} -> 1
      [] direction \in {-8, -7, -9} -> -1
      [] OTHER -> 0

\* ------------------------------------------------------------------------
\* Board utilities (engine/board/utils)
\* ------------------------------------------------------------------------
createEmptyBoard == [sq \in 0..63 |-> NoPiece]
isEmpty(board, square) == board[square] = NoPiece
isEnemy(board, square, color) ==
    board[square] # NoPiece /\ pieceColor(board[square]) # color
isFriendly(board, square, color) ==
    board[square] # NoPiece /\ pieceColor(board[square]) = color
getPiece(board, square) == board[square]

\* The first square from i on that holds the king.
FindKingFrom(board, king, i) ==
    IF \A square \in i..(NUM_SQUARES - 1) : board[square] # king THEN NoSquare
    ELSE CHOOSE square \in i..(NUM_SQUARES - 1) :
             /\ board[square] = king
             /\ \A before \in i..(square - 1) : board[before] # king

\* findKing throws when there is no king; NoSquare stands for the throw.
findKing(board, color) == FindKingFrom(board, makePiece(KING, color), 0)

\* ------------------------------------------------------------------------
\* Attack detection (engine/moves/generator)
\* ------------------------------------------------------------------------
isPawnAttacking(board, square, attackingColor) ==
    LET file == getFile(square)
        rank == getRank(square)
        pawnRank == IF attackingColor = WHITE THEN rank - 1 ELSE rank + 1
        pawn == makePiece(PAWN, attackingColor)
    IN  IF pawnRank < 0 \/ pawnRank > 7 THEN FALSE
        ELSE \/ (file > 0 /\ board[toSquareIndex(file - 1, pawnRank)] = pawn)
             \/ (file < 7 /\ board[toSquareIndex(file + 1, pawnRank)] = pawn)

isKnightAttacking(board, square, attackingColor) ==
    LET file == getFile(square)
        rank == getRank(square)
        knight == makePiece(KNIGHT, attackingColor)
    IN  \E i \in 1..8 :
            LET targetSquare == square + KNIGHT_MOVES[i]
                fileDiff == Abs(getFile(targetSquare) - file)
                rankDiff == Abs(getRank(targetSquare) - rank)
            IN  /\ (fileDiff = 1 /\ rankDiff = 2) \/ (fileDiff = 2 /\ rankDiff = 1)
                /\ targetSquare >= 0 /\ targetSquare <= 63
                /\ board[targetSquare] = knight

isKingAttacking(board, square, attackingColor) ==
    LET file == getFile(square)
        rank == getRank(square)
        king == makePiece(KING, attackingColor)
    IN  \E i \in 1..8 :
            LET targetSquare == square + KING_MOVES[i]
                fileDiff == Abs(getFile(targetSquare) - file)
                rankDiff == Abs(getRank(targetSquare) - rank)
            IN  /\ ~(fileDiff > 1 \/ rankDiff > 1)
                /\ targetSquare >= 0 /\ targetSquare <= 63
                /\ board[targetSquare] = king

\* One ray of isSlidingPieceAttacking: walk from (file, rank) until the edge
\* or the first piece; TRUE iff that piece is an attacker of kind a or b.
RECURSIVE RayAttacked(_, _, _, _, _, _, _)
RayAttacked(board, file, rank, df, dr, a, b) ==
    LET currentFile == file + df
        currentRank == rank + dr
    IN  IF ~isValidFileRank(currentFile, currentRank) THEN FALSE
        ELSE LET piece == board[toSquareIndex(currentFile, currentRank)]
             IN  IF piece # NoPiece THEN piece = a \/ piece = b
                 ELSE RayAttacked(board, currentFile, currentRank, df, dr, a, b)

isSlidingPieceAttacking(board, square, attackingColor) ==
    LET file == getFile(square)
        rank == getRank(square)
        rook == makePiece(ROOK, attackingColor)
        bishop == makePiece(BISHOP, attackingColor)
        queen == makePiece(QUEEN, attackingColor)
    IN  \/ \E i \in 1..4 :
              RayAttacked(board, file, rank, DirFileStep(ROOK_DIRECTIONS[i]),
                          DirRankStep(ROOK_DIRECTIONS[i]), rook, queen)
        \/ \E i \in 1..4 :
              RayAttacked(board, file, rank, DirFileStep(BISHOP_DIRECTIONS[i]),
                          DirRankStep(BISHOP_DIRECTIONS[i]), bishop, queen)

isSquareAttacked(board, square, attackingColor) ==
    \/ isPawnAttacking(board, square, attackingColor)
    \/ isKnightAttacking(board, square, attackingColor)
    \/ isKingAttacking(board, square, attackingColor)
    \/ isSlidingPieceAttacking(board, square, attackingColor)

isInCheck(board, color) ==
    isSquareAttacked(board, findKing(board, color), oppositeColor(color))

\* ------------------------------------------------------------------------
\* Pseudo-legal move generation (engine/moves/generator)
\* ------------------------------------------------------------------------
NORMAL == "normal"
CAPTURE == "capture"
EN_PASSANT == "enPassant"
CASTLING_KINGSIDE == "castlingKingside"
CASTLING_QUEENSIDE == "castlingQueenside"
PROMOTION == "promotion"
PROMOTION_CAPTURE == "promotionCapture"

Move(from, to, piece, moveType, captured, promotion) ==
    [from |-> from, to |-> to, piece |-> piece, moveType |-> moveType,
     captured |-> captured, promotion |-> promotion]

\* Promotion pieces in the order 'q', 'r', 'b', 'n'.
addPromotionMoves(from, to, piece, captured) ==
    LET moveType == IF captured # NoPiece THEN PROMOTION_CAPTURE ELSE PROMOTION
    IN  << Move(from, to, piece, moveType, captured, QUEEN),
           Move(from, to, piece, moveType, captured, ROOK),
           Move(from, to, piece, moveType, captured, BISHOP),
           Move(from, to, piece, moveType, captured, KNIGHT) >>

\* The capture and en-passant moves of a pawn towards one capture file.
PawnCaptureMoves(position, from, piece, captureFile) ==
    LET board == position.board
        rank == getRank(from)
        isWhite == pieceColor(piece) = WHITE
        singlePushRank == rank + (IF isWhite THEN 1 ELSE -1)
        promotionRank == IF isWhite THEN 7 ELSE 0
    IN  IF ~isValidFileRank(captureFile, singlePushRank) THEN << >>
        ELSE LET captureSquare == toSquareIndex(captureFile, singlePushRank)
                 regular ==
                     IF isEnemy(board, captureSquare, pieceColor(piece))
                     THEN IF singlePushRank = promotionRank
                          THEN addPromotionMoves(from, captureSquare, piece,
                                                 getPiece(board, captureSquare))
                          ELSE << Move(from, captureSquare, piece, CAPTURE,
                                       getPiece(board, captureSquare), 0) >>
                     ELSE << >>
                 capturedPawn == getPiece(board, toSquareIndex(captureFile, rank))
                 enPassant ==
                     IF captureSquare = position.enPassantSquare
                        /\ capturedPawn # NoPiece
                     THEN << Move(from, captureSquare, piece, EN_PASSANT,
                                  capturedPawn, 0) >>
                     ELSE << >>
             IN  regular \o enPassant

generatePawnMoves(position, from, piece) ==
    LET board == position.board
        file == getFile(from)
        rank == getRank(from)
        isWhite == pieceColor(piece) = WHITE
        direction == IF isWhite THEN 1 ELSE -1
        startRank == IF isWhite THEN 1 ELSE 6
        promotionRank == IF isWhite THEN 7 ELSE 0
        singlePushRank == rank + direction
        singlePushSquare == toSquareIndex(file, singlePushRank)
        doublePushSquare == toSquareIndex(file, rank + 2 * direction)
        pushes ==
            IF isValidFileRank(file, singlePushRank) /\ isEmpty(board, singlePushSquare)
            THEN IF singlePushRank = promotionRank
                 THEN addPromotionMoves(from, singlePushSquare, piece, NoPiece)
                 ELSE << Move(from, singlePushSquare, piece, NORMAL, 0, 0) >>
                      \o (IF rank = startRank /\ isEmpty(board, doublePushSquare)
                          THEN << Move(from, doublePushSquare, piece, NORMAL, 0, 0) >>
                          ELSE << >>)
            ELSE << >>
    IN  pushes \o PawnCaptureMoves(position, from, piece, file - 1)
               \o PawnCaptureMoves(position, from, piece, file + 1)

\* A move onto `to`, a capture when the square is occupied.
MoveOrCapture(board, from, to, piece) ==
    Move(from, to, piece,
         IF getPiece(board, to) # NoPiece THEN CAPTURE ELSE NORMAL,
         getPiece(board, to), 0)

RECURSIVE KnightMovesFrom(_, _, _, _)
KnightMovesFrom(board, from, piece, i) ==
    IF i > Len(KNIGHT_MOVES) THEN << >>
    ELSE LET to == from + KNIGHT_MOVES[i]
             fileDiff == Abs(getFile(to) - getFile(from))
             rankDiff == Abs(getRank(to) - getRank(from))
             ok == /\ (fileDiff = 1 /\ rankDiff = 2) \/ (fileDiff = 2 /\ rankDiff = 1)
                   /\ to >= 0 /\ to <= 63
                   /\ ~isFriendly(board, to, pieceColor(piece))
         IN  (IF ok THEN << MoveOrCapture(board, from, to, piece) >> ELSE << >>)
             \o KnightMovesFrom(board, from, piece, i + 1)

generateKnightMoves(board, from, piece) == KnightMovesFrom(board, from, piece, 1)

\* One direction of generateSlidingMoves, from the square after (file, rank).
RECURSIVE SlideRay(_, _, _, _, _, _, _)
SlideRay(board, from, piece, file, rank, df, dr) ==
    LET currentFile == file + df
        currentRank == rank + dr
    IN  IF ~isValidFileRank(currentFile, currentRank) THEN << >>
        ELSE LET to == toSquareIndex(currentFile, currentRank)
             IN  IF isFriendly(board, to, pieceColor(piece)) THEN << >>
                 ELSE IF getPiece(board, to) # NoPiece
                      THEN << MoveOrCapture(board, from, to, piece) >>
                      ELSE << MoveOrCapture(board, from, to, piece) >>
                           \o SlideRay(board, from, piece, currentFile, currentRank, df, dr)

RECURSIVE SlidingMovesFrom(_, _, _, _, _)
SlidingMovesFrom(board, from, piece, directions, i) ==
    IF i > Len(directions) THEN << >>
    ELSE SlideRay(board, from, piece, getFile(from), getRank(from),
                  DirFileStep(directions[i]), DirRankStep(directions[i]))
         \o SlidingMovesFrom(board, from, piece, directions, i + 1)

generateSlidingMoves(board, from, piece, directions) ==
    SlidingMovesFrom(board, from, piece, directions, 1)

generateBishopMoves(board, from, piece) ==
    generateSlidingMoves(board, from, piece, BISHOP_DIRECTIONS)
generateRookMoves(board, from, piece) ==
    generateSlidingMoves(board, from, piece, ROOK_DIRECTIONS)
generateQueenMoves(board, from, piece) ==
    generateSlidingMoves(board, from, piece, QUEEN_DIRECTIONS)

RECURSIVE KingStepsFrom(_, _, _, _)
KingStepsFrom(board, from, piece, i) ==
    IF i > Len(KING_MOVES) THEN << >>
    ELSE LET to == from + KING_MOVES[i]
             fileDiff == Abs(getFile(to) - getFile(from))
             rankDiff == Abs(getRank(to) - getRank(from))
             ok == /\ ~(fileDiff > 1 \/ rankDiff > 1)
                   /\ to >= 0 /\ to <= 63
                   /\ ~isFriendly(board, to, pieceColor(piece))
         IN  (IF ok THEN << MoveOrCapture(board, from, to, piece) >> ELSE << >>)
             \o KingStepsFrom(board, from, piece, i + 1)

hasCastlingRight(castlingRights, color, wing) ==
    IF color = WHITE
    THEN (IF wing = "K" THEN castlingRights.whiteKingside
                        ELSE castlingRights.whiteQueenside)
    ELSE (IF wing = "K" THEN castlingRights.blackKingside
                        ELSE castlingRights.blackQueenside)

\* The castling move of one wing, as generateKingMoves adds it once the king
\* is known to stand on its start square and not to be attacked.
\* CastlingMove without the test of the squares the king passes through.
CastlingMove_PathUnchecked(position, from, piece, wing) ==
    IF hasCastlingRight(position.castlingRights, position.sideToMove, wing)
       /\ \A i \in 1..Len(CASTLING_EMPTY(position.sideToMove, wing)) :
              isEmpty(position.board, CASTLING_EMPTY(position.sideToMove, wing)[i])
    THEN << Move(from, CASTLING_KING_DEST(position.sideToMove, wing), piece,
                 IF wing = "K" THEN CASTLING_KINGSIDE ELSE CASTLING_QUEENSIDE,
                 0, 0) >>
    ELSE << >>

CastlingMove(position, from, piece, wing) ==
    LET board == position.board
        color == position.sideToMove
        enemyColor == oppositeColor(color)
        emptySquares == CASTLING_EMPTY(color, wing)
        pathSquares == CASTLING_PATH(color, wing)
        allEmpty == \A i \in 1..Len(emptySquares) : isEmpty(board, emptySquares[i])
        pathSafe == \A i \in 1..Len(pathSquares) :
                        ~isSquareAttacked(board, pathSquares[i], enemyColor)
    IN  IF hasCastlingRight(position.castlingRights, color, wing)
           /\ allEmpty /\ pathSafe
        THEN << Move(from, CASTLING_KING_DEST(color, wing), piece,
                     IF wing = "K" THEN CASTLING_KINGSIDE ELSE CASTLING_QUEENSIDE,
                     0, 0) >>
        ELSE << >>

generateKingMoves(position, from, piece) ==
    LET board == position.board
        enemyColor == oppositeColor(position.sideToMove)
        steps == KingStepsFrom(board, from, piece, 1)
    IN  IF from # KING_START(position.sideToMove) THEN steps
        ELSE IF isSquareAttacked(board, from, enemyColor) THEN steps
        ELSE steps \o CastlingMove(position, from, piece, "K")
                   \o CastlingMove(position, from, piece, "Q")

\* The moves generatePseudoLegalMoves adds for one square.
MovesFromSquare(position, square) ==
    LET piece == position.board[square]
        type == pieceType(piece)
    IN  IF piece = NoPiece \/ pieceColor(piece) # position.sideToMove THEN << >>
        ELSE CASE type = PAWN -> generatePawnMoves(position, square, piece)
               [] type = KNIGHT -> generateKnightMoves(position.board, square, piece)
               [] type = BISHOP -> generateBishopMoves(position.board, square, piece)
               [] type = ROOK -> generateRookMoves(position.board, square, piece)
               [] type = QUEEN -> generateQueenMoves(position.board, square, piece)
               [] OTHER -> generateKingMoves(position, square, piece)

\* The moves from the squares first..last, in the order of the squares.
RECURSIVE PseudoLegalRange(_, _, _)
PseudoLegalRange(position, first, last) ==
    IF first > last THEN << >>
    ELSE IF first = last THEN MovesFromSquare(position, first)
    ELSE PseudoLegalRange(position, first, (first + last) \div 2)
         \o PseudoLegalRange(position, (first + last) \div 2 + 1, last)

PseudoLegalFrom(position, square) == PseudoLegalRange(position, square, 63)

generatePseudoLegalMoves(position) == PseudoLegalFrom(position, 0)

\* ------------------------------------------------------------------------
\* Make-move and the legality filter (engine/moves/generator)
\* ------------------------------------------------------------------------
\* The board after the move: the source square cleared, then the switch on
\* the move type.
\* makeMoveBoard that leaves the moved piece on its source square as well.
makeMoveBoard_SourceKept(board0, move) == [board0 EXCEPT ![move.to] = board0[move.from]]

makeMoveBoard(board0, move) ==
    LET from == move.from
        to == move.to
        piece == board0[from]
        color == pieceColor(piece)
        board == [board0 EXCEPT ![from] = NoPiece]
    IN  CASE move.moveType = EN_PASSANT ->
               [board EXCEPT ![toSquareIndex(getFile(to), getRank(from))] = NoPiece,
                             ![to] = piece]
          [] move.moveType = CASTLING_KINGSIDE ->
               LET b1 == [board EXCEPT ![to] = piece]
                   b2 == [b1 EXCEPT ![CASTLING_ROOK_DEST(color, "K")] =
                                        b1[ROOK_START(color, "K")]]
               IN  [b2 EXCEPT ![ROOK_START(color, "K")] = NoPiece]
          [] move.moveType = CASTLING_QUEENSIDE ->
               LET b1 == [board EXCEPT ![to] = piece]
                   b2 == [b1 EXCEPT ![CASTLING_ROOK_DEST(color, "Q")] =
                                        b1[ROOK_START(color, "Q")]]
               IN  [b2 EXCEPT ![ROOK_START(color, "Q")] = NoPiece]
          [] move.moveType \in {PROMOTION, PROMOTION_CAPTURE} ->
               IF piece # NoPiece /\ move.promotion # 0
               THEN [board EXCEPT ![to] = makePiece(move.promotion, color)]
               ELSE board
          [] OTHER -> [board EXCEPT ![to] = piece]

\* makeMoveEnPassant that never sets an en passant square.
makeMoveEnPassant_Never(board0, move) == NoSquare

\* makeMoveEnPassant that does not look at the type of the moved piece.
makeMoveEnPassant_AnyPiece(board0, move) ==
    IF Abs(getRank(move.to) - getRank(move.from)) = 2
    THEN toSquareIndex(getFile(move.from),
                       (getRank(move.from) + getRank(move.to)) \div 2)
    ELSE NoSquare

makeMoveEnPassant(board0, move) ==
    LET piece == board0[move.from]
    IN  IF piece # NoPiece /\ pieceType(piece) = PAWN
           /\ Abs(getRank(move.to) - getRank(move.from)) = 2
        THEN toSquareIndex(getFile(move.from),
                           (getRank(move.from) + getRank(move.to)) \div 2)
        ELSE NoSquare

\* makeMoveCastlingRights that clears a right only when a piece leaves the
\* home square of the king or rook, not when a rook is captured there.
makeMoveCastlingRights_CaptureIgnored(position, move) ==
    LET from == move.from
        cr == position.castlingRights
    IN  [whiteKingside |-> cr.whiteKingside
                           /\ from \notin {KING_START(WHITE), ROOK_START(WHITE, "K")},
         whiteQueenside |-> cr.whiteQueenside
                           /\ from \notin {KING_START(WHITE), ROOK_START(WHITE, "Q")},
         blackKingside |-> cr.blackKingside
                           /\ from \notin {KING_START(BLACK), ROOK_START(BLACK, "K")},
         blackQueenside |-> cr.blackQueenside
                           /\ from \notin {KING_START(BLACK), ROOK_START(BLACK, "Q")}]

makeMoveCastlingRights(position, move) ==
    LET piece == position.board[move.from]
        from == move.from
        to == move.to
        cr == position.castlingRights
        kingW == piece # NoPiece /\ piece = makePiece(KING, WHITE)
        kingB == piece # NoPiece /\ piece = makePiece(KING, BLACK)
    IN  [whiteKingside |-> cr.whiteKingside /\ ~kingW
                           /\ ~(from = ROOK_START(WHITE, "K") \/ to = ROOK_START(WHITE, "K")),
         whiteQueenside |-> cr.whiteQueenside /\ ~kingW
                           /\ ~(from = ROOK_START(WHITE, "Q") \/ to = ROOK_START(WHITE, "Q")),
         blackKingside |-> cr.blackKingside /\ ~kingB
                           /\ ~(from = ROOK_START(BLACK, "K") \/ to = ROOK_START(BLACK, "K")),
         blackQueenside |-> cr.blackQueenside /\ ~kingB
                           /\ ~(from = ROOK_START(BLACK, "Q") \/ to = ROOK_START(BLACK, "Q"))]

makeMove(position, move) ==
    LET piece == position.board[move.from]
    IN  [board |-> makeMoveBoard(position.board, move),
         sideToMove |-> oppositeColor(position.sideToMove),
         castlingRights |-> makeMoveCastlingRights(position, move),
         enPassantSquare |-> makeMoveEnPassant(position.board, move),
         halfmoveClock |->
             IF (piece # NoPiece /\ pieceType(piece) = PAWN) \/ move.captured # NoPiece
             THEN 0 ELSE position.halfmoveClock + 1,
         fullmoveNumber |->
             IF position.sideToMove = BLACK THEN position.fullmoveNumber + 1
             ELSE position.fullmoveNumber]

isMoveLegal(position, move) ==
    ~isInCheck(makeMoveBoard(position.board, move), position.sideToMove)

\* generateLegalMoves without its legality filter.
generateLegalMoves_Unfiltered(position) == generatePseudoLegalMoves(position)

generateLegalMoves(position) ==
    SelectSeq(generatePseudoLegalMoves(position), LAMBDA move : isMoveLegal(position, move))

\* ------------------------------------------------------------------------
\* Perft, the move-path count of the move-generator tests
\* ------------------------------------------------------------------------
RECURSIVE perft(_, _)
RECURSIVE PerftSum(_, _, _, _)
PerftSum(position, moves, i, depth) ==
    IF i > Len(moves) THEN 0
    ELSE perft(makeMove(position, moves[i]), depth - 1)
         + PerftSum(position, moves, i + 1, depth)

perft(position, depth) ==
    IF depth = 0 THEN 1
    ELSE LET moves == generateLegalMoves(position)
         IN  IF depth = 1 THEN Len(moves)
             ELSE PerftSum(position, moves, 1, depth)


\* ------------------------------------------------------------------------
\* FEN piece placement (engine/board/fen).  A FEN field is a sequence of
\* one-character strings; the placement is given split at '/'.
\* ------------------------------------------------------------------------
PIECE_CHARS(char) ==
    CASE char = "P" -> 1 [] char = "N" -> 2 [] char = "B" -> 3
      [] char = "R" -> 4 [] char = "Q" -> 5 [] char = "K" -> 6
      [] char = "p" -> 7 [] char = "n" -> 8 [] char = "b" -> 9
      [] char = "r" -> 10 [] char = "q" -> 11 [] char = "k" -> 12
      [] OTHER -> NoPiece

\* parseInt(char, 10) of one character; -1 stands for NaN.
parseIntChar(char) ==
    CASE char = "0" -> 0 [] char = "1" -> 1 [] char = "2" -> 2 [] char = "3" -> 3
      [] char = "4" -> 4 [] char = "5" -> 5 [] char = "6" -> 6 [] char = "7" -> 7
      [] char = "8" -> 8 [] char = "9" -> 9
      [] OTHER -> -1

\* The inner loop of parsePiecePlacement over the characters of one rank.
RECURSIVE ParseRankChars(_, _, _, _, _)
ParseRankChars(board, rankStr, rankIdx, i, fileIdx) ==
    IF i > Len(rankStr) THEN [ok |-> fileIdx = 8, board |-> board]
    ELSE IF fileIdx >= 8 THEN [ok |-> FALSE, board |-> board]
    ELSE LET char == rankStr[i]
             digit == parseIntChar(char)
         IN  IF digit # -1
             THEN IF digit < 1 \/ digit > 8 THEN [ok |-> FALSE, board |-> board]
                  ELSE ParseRankChars(board, rankStr, rankIdx, i + 1, fileIdx + digit)
             ELSE IF PIECE_CHARS(char) = NoPiece THEN [ok |-> FALSE, board |-> board]
             ELSE ParseRankChars(
                      [board EXCEPT ![toSquareIndex(fileIdx, rankIdx)] = PIECE_CHARS(char)],
                      rankStr, rankIdx, i + 1, fileIdx + 1)

RECURSIVE ParseRanksFrom(_, _, _)
ParseRanksFrom(board, ranks, rankIdx) ==
    IF rankIdx >= 8 THEN [ok |-> TRUE, board |-> board]
    ELSE LET r == ParseRankChars(board, ranks[8 - rankIdx], rankIdx, 1, 0)
         IN  IF ~r.ok THEN r ELSE ParseRanksFrom(r.board, ranks, rankIdx + 1)

\* ok = FALSE stands for the thrown Error.
parsePiecePlacement(ranks) ==
    IF Len(ranks) # 8 THEN [ok |-> FALSE, board |-> createEmptyBoard]
    ELSE ParseRanksFrom(createEmptyBoard, ranks, 0)

CastlingRights(wk, wq, bk, bq) ==
    [whiteKingside |-> wk, whiteQueenside |-> wq,
     blackKingside |-> bk, blackQueenside |-> bq]

Position(board, sideToMove, castlingRights, enPassantSquare, halfmoveClock, fullmoveNumber) ==
    [board |-> board, sideToMove |-> sideToMove, castlingRights |-> castlingRights,
     enPassantSquare |-> enPassantSquare, halfmoveClock |-> halfmoveClock,
     fullmoveNumber |-> fullmoveNumber]

STARTING_PLACEMENT ==
    << <<"r", "n", "b", "q", "k", "b", "n", "r">>,
       <<"p", "p", "p", "p", "p", "p", "p", "p">>,
       <<"8">>,
       <<"8">>,
       <<"8">>,
       <<"8">>,
       <<"P", "P", "P", "P", "P", "P", "P", "P">>,
       <<"R", "N", "B", "Q", "K", "B", "N", "R">> >>

KIWIPETE_PLACEMENT ==
    << <<"r", "3", "k", "2", "r">>,
       <<"p", "1", "p", "p", "q", "p", "b", "1">>,
       <<"b", "n", "2", "p", "n", "p", "1">>,
       <<"3", "P", "N", "3">>,
       <<"1", "p", "2", "P", "3">>,
       <<"2", "N", "2", "Q", "1", "p">>,
       <<"P", "P", "P", "B", "B", "P", "P", "P">>,
       <<"R", "3", "K", "2", "R">> >>

createStartingPosition ==
    Position(parsePiecePlacement(STARTING_PLACEMENT).board, WHITE,
             CastlingRights(TRUE, TRUE, TRUE, TRUE), NoSquare, 0, 1)

KIWIPETE ==
    Position(parsePiecePlacement(KIWIPETE_PLACEMENT).board, WHITE,
             CastlingRights(TRUE, TRUE, TRUE, TRUE), NoSquare, 0, 1)


\* ------------------------------------------------------------------------
\* Evaluation (engine/evaluation/evaluate)
\* ------------------------------------------------------------------------
PIECE_VALUES(type) ==
    CASE type = PAWN -> 100 [] type = KNIGHT -> 320 [] type = BISHOP -> 330
      [] type = ROOK -> 500 [] type = QUEEN -> 900 [] OTHER -> 20000

MATE_SCORE == 100000
DRAW_SCORE == 0

PAWN_PST ==
    <<   0,   0,   0,   0,   0,   0,   0,   0,
        50,  50,  50,  50,  50,  50,  50,  50,
        10,  10,  20,  30,  30,  20,  10,  10,
         5,   5,  10,  25,  25,  10,   5,   5,
         0,   0,   0,  20,  20,   0,   0,   0,
         5,  -5, -10,   0,   0, -10,  -5,   5,
         5,  10,  10, -20, -20,  10,  10,   5,
         0,   0,   0,   0,   0,   0,   0,   0 >>

KNIGHT_PST ==
    << -50, -40, -30, -30, -30, -30, -40, -50,
       -40, -20,   0,   0,   0,   0, -20, -40,
       -30,   0,  10,  15,  15,  10,   0, -30,
       -30,   5,  15,  20,  20,  15,   5, -30,
       -30,   0,  15,  20,  20,  15,   0, -30,
       -30,   5,  10,  15,  15,  10,   5, -30,
       -40, -20,   0,   5,   5,   0, -20, -40,
       -50, -40, -30, -30, -30, -30, -40, -50 >>

BISHOP_PST ==
    << -20, -10, -10, -10, -10, -10, -10, -20,
       -10,   0,   0,   0,   0,   0,   0, -10,
       -10,   0,   5,  10,  10,   5,   0, -10,
       -10,   5,   5,  10,  10,   5,   5, -10,
       -10,   0,  10,  10,  10,  10,   0, -10,
       -10,  10,  10,  10,  10,  10,  10, -10,
       -10,   5,   0,   0,   0,   0,   5, -10,
       -20, -10, -10, -10, -10, -10, -10, -20 >>

ROOK_PST ==
    <<   0,   0,   0,   0,   0,   0,   0,   0,
         5,  10,  10,  10,  10,  10,  10,   5,
        -5,   0,   0,   0,   0,   0,   0,  -5,
        -5,   0,   0,   0,   0,   0,   0,  -5,
        -5,   0,   0,   0,   0,   0,   0,  -5,
        -5,   0,   0,   0,   0,   0,   0,  -5,
        -5,   0,   0,   0,   0,   0,   0,  -5,
         0,   0,   0,   5,   5,   0,   0,   0 >>

QUEEN_PST ==
    << -20, -10, -10,  -5,  -5, -10, -10, -20,
       -10,   0,   0,   0,   0,   0,   0, -10,
       -10,   0,   5,   5,   5,   5,   0, -10,
        -5,   0,   5,   5,   5,   5,   0,  -5,
         0,   0,   5,   5,   5,   5,   0,  -5,
       -10,   5,   5,   5,   5,   5,   0, -10,
       -10,   0,   5,   0,   0,   0,   0, -10,
       -20, -10, -10,  -5,  -5, -10, -10, -20 >>

KING_PST_MG ==
    << -30, -40, -40, -50, -50, -40, -40, -30,
       -30, -40, -40, -50, -50, -40, -40, -30,
       -30, -40, -40, -50, -50, -40, -40, -30,
       -30, -40, -40, -50, -50, -40, -40, -30,
       -20, -30, -30, -40, -40, -30, -30, -20,
       -10, -20, -20, -20, -20, -20, -20, -10,
        20,  20,   0,   0,   0,   0,  20,  20,
        20,  30,  10,   0,   0,  10,  30,  20 >>

KING_PST_EG ==
    << -50, -40, -30, -20, -20, -30, -40, -50,
       -30, -20, -10,   0,   0, -10, -20, -30,
       -30, -10,  20,  30,  30,  20, -10, -30,
       -30, -10,  30,  40,  40,  30, -10, -30,
       -30, -10,  30,  40,  40,  30, -10, -30,
       -30, -10,  20,  30,  30,  20, -10, -30,
       -30, -30,   0,   0,   0,   0, -30, -30,
       -50, -30, -30, -30, -30, -30, -30, -50 >>

PST_TABLES(type) ==
    CASE type = PAWN -> PAWN_PST [] type = KNIGHT -> KNIGHT_PST
      [] type = BISHOP -> BISHOP_PST [] type = ROOK -> ROOK_PST
      [] type = QUEEN -> QUEEN_PST [] OTHER -> KING_PST_MG

\* The sum of F(square) over the squares i..63.
RECURSIVE SumRange(_, _, _)
SumRange(values, first, last) ==
    IF first > last THEN 0
    ELSE IF first = last THEN values[first]
    ELSE SumRange(values, first, (first + last) \div 2)
         + SumRange(values, (first + last) \div 2 + 1, last)

SumSquares(F(_), i) == SumRange([square \in 0..63 |-> F(square)], i, 63)

\* The tables are sequences, indexed from 1.
getPstValue_Unflipped(piece, square, endgame) ==
    LET table == IF pieceType(piece) = KING /\ endgame THEN KING_PST_EG
                 ELSE PST_TABLES(pieceType(piece))
    IN  table[square + 1]

getPstValue(piece, square, endgame) ==
    LET table == IF pieceType(piece) = KING /\ endgame THEN KING_PST_EG
                 ELSE PST_TABLES(pieceType(piece))
        adjustedSquare == IF pieceColor(piece) = WHITE THEN square
                          ELSE (7 - getRank(square)) * 8 + getFile(square)
    IN  table[adjustedSquare + 1]

isEndgame(board) ==
    LET queenCount == Cardinality({sq \in 0..63 :
                          board[sq] # NoPiece /\ pieceType(board[sq]) = QUEEN})
        minorMajorCount == Cardinality({sq \in 0..63 :
                          board[sq] # NoPiece
                          /\ pieceType(board[sq]) \in {ROOK, BISHOP, KNIGHT}})
    IN  queenCount = 0 \/ (queenCount <= 2 /\ minorMajorCount <= 2)

evaluateMaterial(board) ==
    LET F(sq) == IF board[sq] = NoPiece THEN 0
                 ELSE IF pieceColor(board[sq]) = WHITE
                      THEN PIECE_VALUES(pieceType(board[sq]))
                      ELSE -PIECE_VALUES(pieceType(board[sq]))
    IN  SumSquares(F, 0)

evaluatePositioning(board) ==
    LET endgame == isEndgame(board)
        F(sq) == IF board[sq] = NoPiece THEN 0
                 ELSE IF pieceColor(board[sq]) = WHITE
                      THEN getPstValue(board[sq], sq, endgame)
                      ELSE -getPstValue(board[sq], sq, endgame)
    IN  SumSquares(F, 0)

evaluateMobility(position) ==
    LET currentMoves == generateLegalMoves(position)
        opponentPosition ==
            [position EXCEPT !.sideToMove = oppositeColor(position.sideToMove)]
        opponentMoves == generateLegalMoves(opponentPosition)
        mobilityDiff == Len(currentMoves) - Len(opponentMoves)
    IN  IF position.sideToMove = WHITE THEN mobilityDiff * 5 ELSE -mobilityDiff * 5

\* The contribution of one colour's king to evaluateKingSafety.
KingSafetyOf(board, color) ==
    LET kingSquare == findKing(board, color)
        kingFile == getFile(kingSquare)
        kingRank == getRank(kingSquare)
        enemyColor == oppositeColor(color)
        homeRank == IF color = WHITE THEN 0 ELSE 7
        sign == IF color = WHITE THEN 1 ELSE -1
        isCastled == (kingFile >= 6 \/ kingFile <= 1) /\ kingRank = homeRank
        inCenter == kingFile >= 3 /\ kingFile <= 4 /\ kingRank = homeRank
        shelter == IF isEndgame(board) THEN 0
                   ELSE (IF isCastled THEN sign * 30 ELSE 0)
                        + (IF inCenter THEN sign * (-20) ELSE 0)
        attacksNearKing ==
            Cardinality({d \in {-1, 0, 1} \X {-1, 0, 1} :
                /\ ~(kingFile + d[1] < 0 \/ kingFile + d[1] > 7
                     \/ kingRank + d[2] < 0 \/ kingRank + d[2] > 7)
                /\ isSquareAttacked(board,
                       toSquareIndex(kingFile + d[1], kingRank + d[2]), enemyColor)})
    IN  shelter + sign * (-attacksNearKing * 10)

evaluateKingSafety(position) ==
    KingSafetyOf(position.board, WHITE) + KingSafetyOf(position.board, BLACK)

centerSquares == {27, 28, 35, 36}
extendedCenter == {18, 19, 20, 21, 26, 29, 34, 37, 42, 43, 44, 45}

evaluateCenterControl(position) ==
    LET board == position.board
        Center(sq) ==
            IF sq \notin centerSquares THEN 0
            ELSE (IF board[sq] # NoPiece /\ pieceType(board[sq]) # KING
                  THEN (IF pieceColor(board[sq]) = WHITE THEN 15 ELSE -15) ELSE 0)
                 + (IF isSquareAttacked(board, sq, WHITE) THEN 5 ELSE 0)
                 - (IF isSquareAttacked(board, sq, BLACK) THEN 5 ELSE 0)
        Extended(sq) ==
            IF sq \in extendedCenter /\ board[sq] # NoPiece
               /\ pieceType(board[sq]) # KING /\ pieceType(board[sq]) # PAWN
            THEN (IF pieceColor(board[sq]) = WHITE THEN 5 ELSE -5)
            ELSE 0
        F(sq) == Center(sq) + Extended(sq)
    IN  SumSquares(F, 0)

\* The squares holding a pawn of the colour (one entry of whitePawnFiles or
\* blackPawnFiles each).
PawnSquares(board, color) == {sq \in 0..63 : board[sq] = makePiece(PAWN, color)}

\* Doubled and isolated pawn penalties of one colour, as a positive number.
PawnPenalty(board, color) ==
    LET pawns == PawnSquares(board, color)
        OnFile(file) == Cardinality({sq \in pawns : getFile(sq) = file})
        Doubled(file) == IF OnFile(file) > 1 THEN (OnFile(file) - 1) * 20 ELSE 0
        doubled == Doubled(0) + Doubled(1) + Doubled(2) + Doubled(3)
                   + Doubled(4) + Doubled(5) + Doubled(6) + Doubled(7)
        isolated == Cardinality({sq \in pawns :
                        ~\E other \in pawns : getFile(other) = getFile(sq) - 1
                                              \/ getFile(other) = getFile(sq) + 1})
    IN  doubled + isolated * 15

evaluatePawnStructure(board) == PawnPenalty(board, BLACK) - PawnPenalty(board, WHITE)

evaluatePieceActivity(board) ==
    LET Bishops(color) == Cardinality({sq \in 0..63 : board[sq] = makePiece(BISHOP, color)})
        bishopPair == (IF Bishops(WHITE) >= 2 THEN 30 ELSE 0)
                      - (IF Bishops(BLACK) >= 2 THEN 30 ELSE 0)
        OpenFile(file) ==
            LET squares == {toSquareIndex(file, rank) : rank \in 0..7}
                hasPawn == \E sq \in squares :
                               board[sq] # NoPiece /\ pieceType(board[sq]) = PAWN
                whiteRookOnFile == \E sq \in squares : board[sq] = makePiece(ROOK, WHITE)
                blackRookOnFile == \E sq \in squares : board[sq] = makePiece(ROOK, BLACK)
            IN  IF hasPawn THEN 0
                ELSE (IF whiteRookOnFile THEN 20 ELSE 0)
                     - (IF blackRookOnFile THEN 20 ELSE 0)
    IN  bishopPair + OpenFile(0) + OpenFile(1) + OpenFile(2) + OpenFile(3)
                   + OpenFile(4) + OpenFile(5) + OpenFile(6) + OpenFile(7)

isInCheckSimple(position) ==
    isSquareAttacked(position.board, findKing(position.board, position.sideToMove),
                     oppositeColor(position.sideToMove))

\* evaluate, given the legal moves of the position (which it generates first).
EvaluateWith(position, legalMoves) ==
    IF Len(legalMoves) = 0
    THEN IF ~isInCheckSimple(position) THEN DRAW_SCORE
         ELSE IF position.sideToMove = WHITE THEN -MATE_SCORE ELSE MATE_SCORE
    ELSE LET opponentPosition ==
                 [position EXCEPT !.sideToMove = oppositeColor(position.sideToMove)]
             mobilityDiff == Len(legalMoves) - Len(generateLegalMoves(opponentPosition))
             mobility == IF position.sideToMove = WHITE THEN mobilityDiff * 5
                         ELSE -mobilityDiff * 5
         IN  evaluateMaterial(position.board) + evaluatePositioning(position.board)
             + mobility + evaluateKingSafety(position)
             + evaluateCenterControl(position) + evaluatePawnStructure(position.board)
             + evaluatePieceActivity(position.board)

evaluate(position) == EvaluateWith(position, generateLegalMoves(position))

getEvaluationBreakdown(position) ==
    [material |-> evaluateMaterial(position.board),
     mobility |-> evaluateMobility(position),
     kingSafety |-> evaluateKingSafety(position),
     centerControl |-> evaluateCenterControl(position),
     pawnStructure |-> evaluatePawnStructure(position.board),
     pieceActivity |-> evaluatePieceActivity(position.board)
                       + evaluatePositioning(position.board)]


\* ------------------------------------------------------------------------
\* Zobrist hashing (engine/search/zobrist)
\* ------------------------------------------------------------------------
\* computeHash XORs one random 64-bit key per occupied square, one for Black
\* to move, one per castling right held and one for the en passant file.  The
\* hash is represented here by exactly the data those keys are selected by
\* (distinct selections are taken to give distinct hashes); the clocks are
\* not part of it.
computeHash(position) ==
    [board |-> position.board,
     blackToMove |-> position.sideToMove = BLACK,
     castling |-> position.castlingRights,
     enPassantFile |-> IF position.enPassantSquare # NoSquare
                       THEN JsRem(position.enPassantSquare, 8) ELSE NoSquare]

\* ------------------------------------------------------------------------
\* Move ordering (engine/search/ordering)
\* ------------------------------------------------------------------------
MVV_LVA_VICTIM(type) == type
MVV_LVA_ATTACKER(type) == 7 - type

getMvvLvaScore(move) ==
    IF move.captured = NoPiece THEN 0
    ELSE MVV_LVA_VICTIM(pieceType(move.captured)) * 10
         + MVV_LVA_ATTACKER(pieceType(move.piece))

MAX_KILLER_MOVES == 2
KILLER_MAX_PLY == 64

\* new KillerMoves(): one empty list per ply.
NoKillers == [p \in 0..(KILLER_MAX_PLY - 1) |-> <<>>]

movesEqual(a, b) == a.from = b.from /\ a.to = b.to /\ a.promotion = b.promotion

KillersAdd_DuplicatesKept(killers, ply, move) ==
    IF ply >= KILLER_MAX_PLY THEN killers
    ELSE IF move.captured # NoPiece THEN killers
    ELSE LET unshifted == <<move>> \o killers[ply]
         IN  [killers EXCEPT ![ply] =
                 IF Len(unshifted) > MAX_KILLER_MOVES
                 THEN SubSeq(unshifted, 1, Len(unshifted) - 1)
                 ELSE unshifted]

\* KillerMoves.add
KillersAdd(killers, ply, move) ==
    IF ply >= KILLER_MAX_PLY THEN killers
    ELSE IF move.captured # NoPiece THEN killers
    ELSE IF \E i \in 1..Len(killers[ply]) : movesEqual(killers[ply][i], move)
         THEN killers
    ELSE LET unshifted == <<move>> \o killers[ply]
         IN  [killers EXCEPT ![ply] =
                 IF Len(unshifted) > MAX_KILLER_MOVES
                 THEN SubSeq(unshifted, 1, Len(unshifted) - 1)
                 ELSE unshifted]

\* KillerMoves.get
KillersGet(killers, ply) == IF ply >= KILLER_MAX_PLY THEN <<>> ELSE killers[ply]

\* The history table: a map from the key of a move to a number, and the
\* largest number ever written (maxValue).
NoHistory == [table |-> <<>>, maxValue |-> 0]
HISTORY_AGE_LIMIT == 10000

\* HistoryTable.getKey: colour and type of the piece, and the target square.
HistoryKey(move) == <<move.piece, move.to>>

\* The table is a sequence of <<key, value>> pairs in insertion order.
HistoryIndex(table, key) ==
    IF \E i \in 1..Len(table) : table[i][1] = key
    THEN CHOOSE i \in 1..Len(table) : table[i][1] = key
    ELSE 0

HistoryGetScore(history, move) ==
    LET i == HistoryIndex(history.table, HistoryKey(move))
    IN  IF i = 0 THEN 0 ELSE history.table[i][2]

HistoryAge(history) ==
    [table |-> [i \in 1..Len(history.table) |->
                   <<history.table[i][1], history.table[i][2] \div 2>>],
     maxValue |-> history.maxValue \div 2]

HistoryAddCutoff(history, move, depth) ==
    LET key == HistoryKey(move)
        i == HistoryIndex(history.table, key)
        current == IF i = 0 THEN 0 ELSE history.table[i][2]
        newValue == current + depth * depth
        set == [table |-> IF i = 0 THEN Append(history.table, <<key, newValue>>)
                          ELSE [history.table EXCEPT ![i] = <<key, newValue>>],
                maxValue |-> IF newValue > history.maxValue THEN newValue
                             ELSE history.maxValue]
    IN  IF set.maxValue > HISTORY_AGE_LIMIT THEN HistoryAge(set) ELSE set

SCORE_HASH_MOVE == 1000000
SCORE_WINNING_CAPTURE == 100000
SCORE_EQUAL_CAPTURE == 50000
SCORE_KILLER_1 == 40000
SCORE_KILLER_2 == 39000
SCORE_LOSING_CAPTURE == 30000
SCORE_HISTORY_BASE == 0
SCORE_PROMOTION == 80000

\* hashMove is a move, or NoMove when there is none.
NoMove == [from |-> NoSquare]

scoreMove(move, hashMove, killers, history, ply) ==
    IF hashMove # NoMove /\ move.from = hashMove.from /\ move.to = hashMove.to
    THEN SCORE_HASH_MOVE
    ELSE IF move.promotion # NoPiece
    THEN SCORE_PROMOTION + PIECE_VALUES(move.promotion)
    ELSE IF move.captured # NoPiece
    THEN LET mvvLva == getMvvLvaScore(move)
             victimValue == PIECE_VALUES(pieceType(move.captured))
             attackerValue == PIECE_VALUES(pieceType(move.piece))
         IN  IF victimValue > attackerValue THEN SCORE_WINNING_CAPTURE + mvvLva
             ELSE IF victimValue = attackerValue THEN SCORE_EQUAL_CAPTURE + mvvLva
             ELSE SCORE_LOSING_CAPTURE + mvvLva
    ELSE LET plyKillers == KillersGet(killers, ply)
             IsKiller(i) == i <= Len(plyKillers)
                            /\ move.from = plyKillers[i].from
                            /\ move.to = plyKillers[i].to
         IN  IF IsKiller(1) THEN SCORE_KILLER_1
             ELSE IF IsKiller(2) THEN SCORE_KILLER_2
             ELSE SCORE_HISTORY_BASE + HistoryGetScore(history, move)

\* Array.prototype.map: the mapped values, each computed once.
MapToArray(mapped) == SubSeq(mapped, 1, Len(mapped))

\* Array.prototype.sort is stable: the scored entry goes behind every entry
\* already placed whose score is at least as high.
InsertByScore(sorted, entry) ==
    LET ahead == Cardinality({i \in 1..Len(sorted) : sorted[i].score >= entry.score})
    IN  SubSeq(sorted, 1, ahead) \o <<entry>> \o SubSeq(sorted, ahead + 1, Len(sorted))

RECURSIVE SortByScore(_, _, _)
SortByScore(scored, i, sorted) ==
    IF i > Len(scored) THEN sorted
    ELSE SortByScore(scored, i + 1, InsertByScore(sorted, scored[i]))

orderMoves(moves, hashMove, killers, history, ply) ==
    LET scored == MapToArray([i \in 1..Len(moves) |->
                      [move |-> moves[i],
                       score |-> scoreMove(moves[i], hashMove, killers, history, ply)]])
        sorted == SortByScore(scored, 1, <<>>)
    IN  [i \in 1..Len(moves) |-> sorted[i].move]

orderCaptures(moves) ==
    LET scored == MapToArray([i \in 1..Len(moves) |->
                      [move |-> moves[i], score |-> getMvvLvaScore(moves[i])]])
        sorted == SortByScore(scored, 1, <<>>)
    IN  [i \in 1..Len(moves) |-> sorted[i].move]


\* ------------------------------------------------------------------------
\* Transposition table (engine/search/transposition)
\* ------------------------------------------------------------------------
\* The table is the sequence of its entries in insertion order (the order a
\* Map iterates in); every entry carries its hash.
TT_DEFAULT_SIZE_MB == 64
TTMaxSize(maxSizeMB) == (maxSizeMB * 1024 * 1024) \div 100
EmptyTable == <<>>

TTIndex(table, hash) ==
    IF \E i \in 1..Len(table) : table[i].hash = hash
    THEN CHOOSE i \in 1..Len(table) : table[i].hash = hash
    ELSE 0

\* TranspositionTable.probe; NoEntry stands for null.
NoEntry == [depth |-> -1]
TTProbe(table, hash) ==
    LET i == TTIndex(table, hash) IN IF i = 0 THEN NoEntry ELSE table[i]

TTStoreIn_AlwaysReplace(table, maxSize, hash, depth, evaluation, nodeType, bestMove) ==
    LET entry == [hash |-> hash, depth |-> depth, evaluation |-> evaluation,
                  nodeType |-> nodeType, bestMove |-> bestMove]
        toDelete == maxSize \div 10
        evicted == IF Len(table) >= maxSize
                   THEN SubSeq(table, (IF toDelete < Len(table) THEN toDelete
                                       ELSE Len(table)) + 1, Len(table))
                   ELSE table
        at == TTIndex(evicted, hash)
    IN  IF at # 0 THEN [evicted EXCEPT ![at] = entry]
        ELSE Append(evicted, entry)

\* TranspositionTable.store for a table of capacity maxSize.
TTStoreIn(table, maxSize, hash, depth, evaluation, nodeType, bestMove) ==
    LET existing == TTIndex(table, hash)
        entry == [hash |-> hash, depth |-> depth, evaluation |-> evaluation,
                  nodeType |-> nodeType, bestMove |-> bestMove]
        toDelete == maxSize \div 10
        evicted == IF Len(table) >= maxSize
                   THEN SubSeq(table, (IF toDelete < Len(table) THEN toDelete
                                       ELSE Len(table)) + 1, Len(table))
                   ELSE table
        at == TTIndex(evicted, hash)
    IN  IF existing # 0 /\ table[existing].depth > depth THEN table
        ELSE IF at # 0 THEN [evicted EXCEPT ![at] = entry]
        ELSE Append(evicted, entry)

TTStore(table, hash, depth, evaluation, nodeType, bestMove) ==
    TTStoreIn(table, TTMaxSize(TT_DEFAULT_SIZE_MB), hash, depth, evaluation,
              nodeType, bestMove)

\* ------------------------------------------------------------------------
\* Alpha-beta search with iterative deepening (engine/search/search)
\* ------------------------------------------------------------------------
\* Infinity bounds the window; every score is strictly inside it.
Infinity == 1000000000
TIME_CHECK_INTERVAL == 1000

\* The clock.  Date.now() is read once when the search state is created and
\* once per time check; what the search observes of it is the number of the
\* first check at which the elapsed time has reached maxTimeMs.  A search
\* state carries that number as expireAt, and NoCutoff when the budget
\* outlasts the search.  With maxTimeMs = 0 the first check already fails.
NoCutoff == 0

\* The search state: the counters of createSearchState and the three global
\* tables it refers to.
createSearchState(expireAt, engine) ==
    [nodesSearched |-> 0, shouldStop |-> FALSE,
     timeChecks |-> 0, expireAt |-> expireAt,
     killerMoves |-> engine.killerMoves,
     historyTable |-> engine.historyTable,
     transpositionTable |-> engine.transpositionTable]

\* shouldStopSearch: the answer and the state it leaves.
shouldStopSearch(state) ==
    IF state.shouldStop THEN [stop |-> TRUE, state |-> state]
    ELSE IF state.nodesSearched % TIME_CHECK_INTERVAL = 0
    THEN LET checked == [state EXCEPT !.timeChecks = @ + 1]
         IN  IF state.expireAt # NoCutoff /\ checked.timeChecks >= state.expireAt
             THEN [stop |-> TRUE, state |-> [checked EXCEPT !.shouldStop = TRUE]]
             ELSE [stop |-> FALSE, state |-> checked]
    ELSE [stop |-> FALSE, state |-> state]

\* A value returned together with the search state it leaves.
Scored(score, state) == [score |-> score, state |-> state]
Searched(score, pv, state) == [score |-> score, pv |-> pv, state |-> state]

\* The larger of two scores.
Raised(alpha, score) == IF score > alpha THEN score ELSE alpha

\* The loop of quiescence as it stands: alpha, the search state, and whether
\* the loop was left by the beta cutoff.
QuiescenceRun(alpha, state, cutoff) ==
    [alpha |-> alpha, state |-> state, cutoff |-> cutoff]

RECURSIVE quiescence(_, _, _, _)
RECURSIVE QuiescenceLoop(_, _, _, _, _, _)

\* The body of the loop after the recursive call has returned child.
QuiescenceAfterCapture(run, beta, child) ==
    IF -child.score >= beta THEN QuiescenceRun(run.alpha, child.state, TRUE)
    ELSE QuiescenceRun(Raised(run.alpha, -child.score), child.state, FALSE)

\* The body of the loop of quiescence for one capture.
QuiescenceCapture(position, capture, beta, run) ==
    IF run.cutoff THEN run
    ELSE QuiescenceAfterCapture(run, beta,
             quiescence(makeMove(position, capture), -beta, -run.alpha, run.state))

\* The loop of quiescence over the ordered captures first..last, in order.
QuiescenceLoop(position, captures, first, last, beta, run) ==
    IF first = last THEN QuiescenceCapture(position, captures[first], beta, run)
    ELSE LET half == QuiescenceLoop(position, captures, first, (first + last) \div 2,
                                    beta, run)
         IN  IF half.cutoff THEN half
             ELSE QuiescenceLoop(position, captures, (first + last) \div 2 + 1, last,
                                 beta, half)

\* The return of quiescence after the loop.
QuiescenceReturn(beta, run) ==
    IF run.cutoff THEN Scored(beta, run.state) ELSE Scored(run.alpha, run.state)

\* quiescence from the filter of the captures on; alpha is already raised.
QuiescenceCaptures(position, captures, alpha, beta, state) ==
    IF Len(captures) = 0 THEN Scored(alpha, state)
    ELSE QuiescenceReturn(beta,
             QuiescenceLoop(position, orderCaptures(captures), 1, Len(captures), beta,
                            QuiescenceRun(alpha, state, FALSE)))

\* quiescence from the stand-pat score (relative to the side to move) on.
QuiescenceStandPat(position, legalMoves, score, alpha, beta, state) ==
    IF score >= beta THEN Scored(beta, state)
    ELSE QuiescenceCaptures(position,
             SelectSeq(legalMoves, LAMBDA move : move.captured # NoPiece),
             Raised(alpha, score), beta, state)

\* quiescence once the node is counted; evaluate and the capture filter work
\* on the same legal moves.
QuiescenceNode(position, legalMoves, alpha, beta, state) ==
    QuiescenceStandPat(position, legalMoves,
        IF position.sideToMove = WHITE THEN EvaluateWith(position, legalMoves)
        ELSE -EvaluateWith(position, legalMoves),
        alpha, beta, state)

\* quiescence after its call of shouldStopSearch.
QuiescenceChecked(position, alpha, beta, check) ==
    IF check.stop THEN Scored(0, check.state)
    ELSE QuiescenceNode(position, generateLegalMoves(position), alpha, beta,
                        [check.state EXCEPT !.nodesSearched = @ + 1])

quiescence(position, alpha, beta, state) ==
    QuiescenceChecked(position, alpha, beta, shouldStopSearch(state))

RECURSIVE alphaBeta(_, _, _, _, _, _)
RECURSIVE AlphaBetaLoop(_, _, _, _, _, _, _, _)

\* The local variables of the move loop of alphaBeta: alpha, bestMove,
\* bestScore, nodeType, localPv and the caller's pv array.
NewLocals(alpha) ==
    [alpha |-> alpha, bestMove |-> NoMove, bestScore |-> -Infinity,
     nodeType |-> "upperBound", localPv |-> <<>>, pv |-> <<>>]

\* The local variables after a move has scored, its child line being childPv.
UpdateLocals(loc, move, score, childPv, beta) ==
    LET better == score > loc.bestScore
        localPv == IF better THEN <<move>> \o childPv ELSE loc.localPv
        raises == score > loc.alpha
    IN  [alpha |-> Raised(loc.alpha, score),
         bestMove |-> IF better THEN move ELSE loc.bestMove,
         bestScore |-> IF better THEN score ELSE loc.bestScore,
         nodeType |-> IF Raised(loc.alpha, score) >= beta THEN "lowerBound"
                      ELSE IF raises THEN "exact" ELSE loc.nodeType,
         localPv |-> localPv,
         pv |-> IF raises THEN localPv ELSE loc.pv]

\* The killer and history update on a beta cutoff.
RecordCutoff(state, ply, move, depth) ==
    IF move.captured # NoPiece THEN state
    ELSE [state EXCEPT !.killerMoves = KillersAdd(@, ply, move),
                       !.historyTable = HistoryAddCutoff(@, move, depth)]

\* The move loop of alphaBeta as it stands: the local variables, the search
\* state, and how the loop was left ("stopped", "cutoff") if it was.
AlphaBetaRun(loc, state, exit) == [loc |-> loc, state |-> state, exit |-> exit]

\* The body of the loop after the move has updated the local variables.
AlphaBetaAfterUpdate(move, depth, beta, ply, loc, state) ==
    IF loc.alpha >= beta
    THEN AlphaBetaRun(loc, RecordCutoff(state, ply, move, depth), "cutoff")
    ELSE AlphaBetaRun(loc, state, "none")

\* The body of the loop without the return on shouldStop.
AlphaBetaAfterMove_StopIgnored(move, depth, beta, ply, run, child) ==
    AlphaBetaAfterUpdate(move, depth, beta, ply,
        UpdateLocals(run.loc, move, -child.score, child.pv, beta), child.state)

\* The body of the loop after the recursive call has returned child.
AlphaBetaAfterMove(move, depth, beta, ply, run, child) ==
    IF child.state.shouldStop THEN AlphaBetaRun(run.loc, child.state, "stopped")
    ELSE AlphaBetaAfterUpdate(move, depth, beta, ply,
             UpdateLocals(run.loc, move, -child.score, child.pv, beta), child.state)

\* The body of the loop of alphaBeta for one move.
AlphaBetaMove(position, move, depth, beta, ply, run) ==
    IF run.exit # "none" THEN run
    ELSE AlphaBetaAfterMove(move, depth, beta, ply, run,
             alphaBeta(makeMove(position, move), depth - 1, -beta, -run.loc.alpha,
                       ply + 1, run.state))

\* The loop of alphaBeta over the ordered moves first..last, in order.
AlphaBetaLoop(position, moves, first, last, depth, beta, ply, run) ==
    IF first = last THEN AlphaBetaMove(position, moves[first], depth, beta, ply, run)
    ELSE LET half == AlphaBetaLoop(position, moves, first, (first + last) \div 2,
                                   depth, beta, ply, run)
         IN  IF half.exit # "none" THEN half
             ELSE AlphaBetaLoop(position, moves, (first + last) \div 2 + 1, last,
                                depth, beta, ply, half)

\* The end of alphaBeta: the return from inside the loop when the search is
\* stopped, else the store in the transposition table and the return.
AlphaBetaReturn(hash, depth, run) ==
    IF run.exit = "stopped" THEN Searched(0, run.loc.pv, run.state)
    ELSE Searched(run.loc.bestScore, run.loc.pv,
             IF run.loc.bestMove # NoMove
             THEN [run.state EXCEPT !.transpositionTable =
                      TTStore(@, hash, depth, run.loc.bestScore, run.loc.nodeType,
                              run.loc.bestMove)]
             ELSE run.state)

\* alphaBeta once the node is counted and its legal moves are generated.
AlphaBetaNode(position, legalMoves, hash, ttEntry, depth, alpha, beta, ply, state) ==
    IF Len(legalMoves) = 0
    THEN Searched(IF isInCheck(position.board, position.sideToMove)
                  THEN -MATE_SCORE + ply ELSE DRAW_SCORE, <<>>, state)
    ELSE IF position.halfmoveClock >= 100 THEN Searched(DRAW_SCORE, <<>>, state)
    ELSE AlphaBetaReturn(hash, depth,
             AlphaBetaLoop(position,
                 orderMoves(legalMoves,
                            IF ttEntry # NoEntry THEN ttEntry.bestMove ELSE NoMove,
                            state.killerMoves, state.historyTable, ply),
                 1, Len(legalMoves), depth, beta, ply,
                 AlphaBetaRun(NewLocals(alpha), state, "none")))

\* What quiescence returned, as the return of alphaBeta at a leaf.
AlphaBetaLeaf(leaf) == Searched(leaf.score, <<>>, leaf.state)

\* alphaBeta after the probe of the transposition table has given ttEntry.
AlphaBetaProbed(position, hash, ttEntry, depth, alpha, beta, ply, state) ==
    IF ttEntry # NoEntry /\ ttEntry.depth >= depth /\ ttEntry.nodeType = "exact"
    THEN Searched(ttEntry.evaluation, <<>>, state)
    ELSE IF ttEntry # NoEntry /\ ttEntry.depth >= depth
            /\ ttEntry.nodeType = "lowerBound" /\ ttEntry.evaluation >= beta
    THEN Searched(beta, <<>>, state)
    ELSE IF ttEntry # NoEntry /\ ttEntry.depth >= depth
            /\ ttEntry.nodeType = "upperBound" /\ ttEntry.evaluation <= alpha
    THEN Searched(alpha, <<>>, state)
    ELSE IF depth <= 0 THEN AlphaBetaLeaf(quiescence(position, alpha, beta, state))
    ELSE AlphaBetaNode(position, generateLegalMoves(position), hash, ttEntry,
                       depth, alpha, beta, ply,
                       [state EXCEPT !.nodesSearched = @ + 1])

\* alphaBeta after its call of shouldStopSearch.
AlphaBetaChecked(position, depth, alpha, beta, ply, check) ==
    IF check.stop THEN Searched(0, <<>>, check.state)
    ELSE AlphaBetaProbed(position, computeHash(position),
             TTProbe(check.state.transpositionTable, computeHash(position)),
             depth, alpha, beta, ply, check.state)

\* alphaBeta: the score, the content of the caller's pv array (empty when the
\* call was made) and the search state on return.
alphaBeta(position, depth, alpha, beta, ply, state) ==
    AlphaBetaChecked(position, depth, alpha, beta, ply, shouldStopSearch(state))

\* A line of the explanation: what it is about, its text, and the quantity
\* the text mentions (0 when it mentions none).
Reason(about, text, value) == [about |-> about, text |-> text, value |-> value]

generateExplanation(move, breakdown, evaluation) ==
    IF move = NoMove THEN <<Reason("noMoves", "No legal moves available", 0)>>
    ELSE LET mateIn == (MATE_SCORE - Abs(evaluation) + 1) \div 2
             assessment ==
                 IF Abs(evaluation) >= MATE_SCORE - 100
                 THEN IF evaluation > 0
                      THEN Reason("assessment", "Checkmate for White in N moves", mateIn)
                      ELSE Reason("assessment", "Checkmate for Black in N moves", mateIn)
                 ELSE IF evaluation > 200
                 THEN Reason("assessment", "White has a winning advantage", 0)
                 ELSE IF evaluation > 50
                 THEN Reason("assessment", "White has a slight advantage", 0)
                 ELSE IF evaluation < -200
                 THEN Reason("assessment", "Black has a winning advantage", 0)
                 ELSE IF evaluation < -50
                 THEN Reason("assessment", "Black has a slight advantage", 0)
                 ELSE Reason("assessment", "Position is roughly equal", 0)
             Side(n) == IF n > 0 THEN "White" ELSE "Black"
             material == IF Abs(breakdown.material) > 100
                         THEN <<Reason("material", Side(breakdown.material),
                                       Abs(breakdown.material))>>
                         ELSE <<>>
             kingSafety == IF Abs(breakdown.kingSafety) > 30
                           THEN <<Reason("kingSafety", Side(breakdown.kingSafety), 0)>>
                           ELSE <<>>
             centerControl == IF Abs(breakdown.centerControl) > 20
                              THEN <<Reason("centerControl",
                                            Side(breakdown.centerControl), 0)>>
                              ELSE <<>>
             mobility == IF Abs(breakdown.mobility) > 30
                         THEN <<Reason("mobility", Side(breakdown.mobility), 0)>>
                         ELSE <<>>
             captures == IF move.captured # NoPiece
                         THEN <<Reason("capture", "Captures", pieceType(move.captured))>>
                         ELSE <<>>
             promotes == IF move.promotion # NoPiece
                         THEN <<Reason("promotion", "Promotes pawn to", move.promotion)>>
                         ELSE <<>>
             castles == IF move.moveType \in {CASTLING_KINGSIDE, CASTLING_QUEENSIDE}
                        THEN <<Reason("castling", "Castles for king safety", 0)>>
                        ELSE <<>>
         IN  <<assessment>> \o material \o kingSafety \o centerControl \o mobility
             \o captures \o promotes \o castles

\* The variables of the deepening loop of search.
NothingRecorded ==
    [bestMove |-> NoMove, bestEvaluation |-> 0, bestPv |-> <<>>, completedDepth |-> 0]

\* The update of the loop variables after an iteration.
RecordIteration(position, depth, best, root) ==
    IF Len(root.pv) > 0
    THEN [bestMove |-> root.pv[1],
          bestEvaluation |-> IF position.sideToMove = WHITE THEN root.score
                             ELSE -root.score,
          bestPv |-> root.pv,
          completedDepth |-> depth]
    ELSE best

\* What the deepening loop leaves: the loop variables, the search state, and
\* for every iteration run what alphaBeta returned at the root.
Deepened(best, state, iterations) ==
    [best |-> best, state |-> state, iterations |-> iterations]

IterationRun(depth, root) ==
    [depth |-> depth, score |-> root.score, pv |-> root.pv,
     stopped |-> root.state.shouldStop]

RECURSIVE DeepeningLoop(_, _, _, _, _, _)

\* The deepening loop after alphaBeta has returned root for the depth.
DeepeningAfterRoot(position, maxDepth, depth, best, iterations, root) ==
    IF root.state.shouldStop /\ depth > 1
    THEN Deepened(best, root.state, Append(iterations, IterationRun(depth, root)))
    ELSE IF Abs(root.score) >= MATE_SCORE - 100
    THEN Deepened(RecordIteration(position, depth, best, root), root.state,
                  Append(iterations, IterationRun(depth, root)))
    ELSE DeepeningLoop(position, maxDepth, depth + 1,
                       RecordIteration(position, depth, best, root), root.state,
                       Append(iterations, IterationRun(depth, root)))

\* The deepening loop of search from the given depth on.
DeepeningLoop(position, maxDepth, depth, best, state, iterations) ==
    IF depth > maxDepth THEN Deepened(best, state, iterations)
    ELSE DeepeningAfterRoot(position, maxDepth, depth, best, iterations,
             alphaBeta(position, depth, -Infinity, Infinity, 0, state))

\* The SearchResult search builds, with the tables it leaves and the record
\* of its iterations.
SearchReturn(loop, bestMove, bestEvaluation, breakdown) ==
    [result |-> [bestMove |-> bestMove,
                 evaluation |-> bestEvaluation,
                 evaluationBreakdown |-> breakdown,
                 principalVariation |-> loop.best.bestPv,
                 depth |-> loop.best.completedDepth,
                 nodesSearched |-> loop.state.nodesSearched,
                 explanation |-> generateExplanation(bestMove, breakdown,
                                                     bestEvaluation)],
     engine |-> [killerMoves |-> loop.state.killerMoves,
                 historyTable |-> loop.state.historyTable,
                 transpositionTable |-> loop.state.transpositionTable],
     iterations |-> loop.iterations,
     shouldStop |-> loop.state.shouldStop]

\* search without the fallback to the first legal move.
SearchFallback_None(position, loop, legalMoves) ==
    SearchReturn(loop, loop.best.bestMove, loop.best.bestEvaluation,
                 getEvaluationBreakdown(position))

\* search after the deepening loop: the fallback to the first legal move.
SearchFallback(position, loop, legalMoves) ==
    IF loop.best.bestMove = NoMove /\ Len(legalMoves) > 0
    THEN SearchReturn(loop, legalMoves[1], EvaluateWith(position, legalMoves),
                      getEvaluationBreakdown(position))
    ELSE SearchReturn(loop, loop.best.bestMove, loop.best.bestEvaluation,
                      getEvaluationBreakdown(position))

\* search(position, {maxDepth, maxTimeMs}) against a clock that runs out at
\* time check expireAt, with the engine's global tables as they are.
search(position, maxDepth, expireAt, engine) ==
    SearchFallback(position,
        DeepeningLoop(position, maxDepth, 1, NothingRecorded,
            [createSearchState(expireAt, engine) EXCEPT !.killerMoves = NoKillers],
            <<>>),
        generateLegalMoves(position))

\* The module-level tables as the engine starts with them.
NewEngine ==
    [killerMoves |-> NoKillers, historyTable |-> NoHistory,
     transpositionTable |-> EmptyTable]


\* ------------------------------------------------------------------------
\* Difficulty levels (engine/ai/difficulty)
\* ------------------------------------------------------------------------
\* Math.random() is a draw from [0, 1), taken here in thousandths: a draw is
\* an integer 0..999 and a probability is held in thousandths too, so that
\* Math.random() < p is draw < p.
RANDOM_SCALE == 1000

DifficultyConfig(maxDepth, maxTimeMs, mistake, blunder, poolSize, noise) ==
    [maxDepth |-> maxDepth, maxTimeMs |-> maxTimeMs,
     mistakeProbability |-> mistake, blunderProbability |-> blunder,
     randomPoolSize |-> poolSize, evaluationNoise |-> noise]

\* DIFFICULTY_CONFIGS with the probabilities of Beginner at Expert.
DIFFICULTY_CONFIGS_ExpertErrs(difficulty) ==
    CASE difficulty = "beginner" -> DifficultyConfig(2, 500, 400, 150, 5, 150)
      [] difficulty = "easy" -> DifficultyConfig(3, 1000, 250, 50, 4, 80)
      [] difficulty = "medium" -> DifficultyConfig(4, 2000, 100, 20, 3, 40)
      [] difficulty = "hard" -> DifficultyConfig(5, 3000, 30, 0, 2, 15)
      [] OTHER -> DifficultyConfig(6, 5000, 400, 150, 5, 150)

DIFFICULTY_CONFIGS(difficulty) ==
    CASE difficulty = "beginner" -> DifficultyConfig(2, 500, 400, 150, 5, 150)
      [] difficulty = "easy" -> DifficultyConfig(3, 1000, 250, 50, 4, 80)
      [] difficulty = "medium" -> DifficultyConfig(4, 2000, 100, 20, 3, 40)
      [] difficulty = "hard" -> DifficultyConfig(5, 3000, 30, 0, 2, 15)
      [] OTHER -> DifficultyConfig(6, 5000, 0, 0, 1, 0)

Difficulties == {"beginner", "easy", "medium", "hard", "expert"}

STYLE_BIASES(style) ==
    CASE style = "aggressive" ->
             [aggressiveBonus |-> 30, defensiveBonus |-> -10,
              centerBonus |-> 15, activityBonus |-> 20]
      [] style = "defensive" ->
             [aggressiveBonus |-> -10, defensiveBonus |-> 30,
              centerBonus |-> 10, activityBonus |-> 5]
      [] OTHER ->
             [aggressiveBonus |-> 10, defensiveBonus |-> 10,
              centerBonus |-> 10, activityBonus |-> 10]

PlayStyles == {"aggressive", "defensive", "balanced"}

applyStyleBias(move, baseScore, style) ==
    LET bias == STYLE_BIASES(style)
        toFile == JsRem(move.to, 8)
        toRank == move.to \div 8
        isCenter == toFile >= 2 /\ toFile <= 5 /\ toRank >= 2 /\ toRank <= 5
        fromRank == move.from \div 8
        startRank == IF pieceColor(move.piece) = WHITE THEN 0 ELSE 7
    IN  baseScore + (IF move.captured # NoPiece THEN bias.aggressiveBonus ELSE 0)
        + (IF isCenter THEN bias.centerBonus ELSE 0)
        + (IF fromRank = startRank /\ toRank # startRank THEN bias.activityBonus ELSE 0)

\* addEvaluationNoise, in thousandths of a centipawn: score + (draw - 0.5) * 2 * noise.
addEvaluationNoise(score, noise, draw) ==
    IF noise = 0 THEN score * RANDOM_SCALE
    ELSE score * RANDOM_SCALE + (draw - RANDOM_SCALE \div 2) * 2 * noise

\* The evaluation of the position after the move, from the mover's side
\* (baseScore in selectBlunderMove and selectMistakeMove).
BaseScore(position, move) ==
    IF position.sideToMove = WHITE THEN evaluate(makeMove(position, move))
    ELSE -evaluate(makeMove(position, move))

BaseScores(position, moves) ==
    MapToArray([i \in 1..Len(moves) |-> BaseScore(position, moves[i])])

\* selectBlunderMove; baseScores are the BaseScores of the moves and draw
\* picks among the three worst moves.
selectBlunderMove(moves, baseScores, draw) ==
    LET scored == MapToArray([i \in 1..Len(moves) |->
                      [move |-> moves[i], score |-> -baseScores[i]]])
        sorted == SortByScore(scored, 1, <<>>)
        worstMoves == SubSeq(sorted, 1, IF Len(sorted) < 3 THEN Len(sorted) ELSE 3)
        randomIndex == (draw * Len(worstMoves)) \div RANDOM_SCALE
    IN  IF randomIndex < Len(worstMoves) THEN worstMoves[randomIndex + 1].move
        ELSE NoMove

\* The weighted pick of selectMistakeMove from the i-th candidate on; random
\* is in thousandths.
RECURSIVE WeightedPick(_, _, _)
WeightedPick(pool, i, random) ==
    IF i > Len(pool) THEN pool[1].move
    ELSE LET left == random - (Len(pool) - (i - 1)) * RANDOM_SCALE
         IN  IF left <= 0 THEN pool[i].move ELSE WeightedPick(pool, i + 1, left)

\* selectMistakeMove; noiseDraws[i] is the draw that blurs the score of the
\* i-th move and draw the one that picks from the pool.
selectMistakeMove(moves, baseScores, config, playStyle, noiseDraws, draw) ==
    LET scored == MapToArray([i \in 1..Len(moves) |->
                      [move |-> moves[i],
                       score |-> addEvaluationNoise(
                                     applyStyleBias(moves[i], baseScores[i], playStyle),
                                     config.evaluationNoise, noiseDraws[i])]])
        sorted == SortByScore(scored, 1, <<>>)
        last == IF config.randomPoolSize + 1 < Len(sorted)
                THEN config.randomPoolSize + 1 ELSE Len(sorted)
        candidatePool == SubSeq(sorted, 2, last)
        totalWeight == (Len(candidatePool) * (Len(candidatePool) + 1)) \div 2
    IN  IF Len(candidatePool) = 0 THEN NoMove
        ELSE WeightedPick(candidatePool, 1, draw * totalWeight)

createBlunderResult(blunderMove, original) ==
    [original EXCEPT
        !.bestMove = blunderMove,
        !.explanation = Append(@, Reason("humanError",
                            "AI made an inaccurate move (human-like error)", 0))]

createMistakeResult(mistakeMove, original) ==
    [original EXCEPT
        !.bestMove = mistakeMove,
        !.explanation = Append(@, Reason("humanError",
                            "AI played a slightly suboptimal move (human-like variation)", 0))]

\* applyHumanBehavior under the draws: draws.blunder and draws.mistake decide
\* the two checks, draws.blunderPick and draws.mistakePick the picks, and
\* draws.noise is repeated over the legal moves.  legalMoves and baseScores
\* are generateLegalMoves(position) and their BaseScores.
applyHumanBehavior(legalMoves, baseScores, searchResult, config, playStyle, draws) ==
    LET blunderMove == selectBlunderMove(legalMoves, baseScores, draws.blunderPick)
        noiseDraws == [i \in 1..Len(legalMoves) |->
                          draws.noise[((i - 1) % Len(draws.noise)) + 1]]
        mistakeMove == selectMistakeMove(legalMoves, baseScores, config, playStyle,
                                         noiseDraws, draws.mistakePick)
    IN  IF Len(legalMoves) <= 1 THEN searchResult
        ELSE IF draws.blunder < config.blunderProbability /\ blunderMove # NoMove
        THEN createBlunderResult(blunderMove, searchResult)
        ELSE IF draws.mistake < config.mistakeProbability /\ mistakeMove # NoMove
        THEN createMistakeResult(mistakeMove, searchResult)
        ELSE searchResult


\* ------------------------------------------------------------------------
\* FEN text (engine/board/fen).  A text is a sequence of one-character
\* strings.
\* ------------------------------------------------------------------------
FILES == <<"a", "b", "c", "d", "e", "f", "g", "h">>
RANKS == <<"1", "2", "3", "4", "5", "6", "7", "8">>
DIGITS == <<"0", "1", "2", "3", "4", "5", "6", "7", "8", "9">>

\* The index of a character in a list, 0 when it is not there.
IndexIn(chars, char) ==
    IF \E i \in 1..Len(chars) : chars[i] = char
    THEN CHOOSE i \in 1..Len(chars) : chars[i] = char
    ELSE 0

NthOf(indexes, n) ==
    CHOOSE i \in indexes : Cardinality({j \in indexes : j < i}) = n - 1

\* text.split(separator) for a separator of one character
SplitBound(text, at, k) ==
    IF k = 0 THEN 0
    ELSE IF k = Cardinality(at) + 1 THEN Len(text) + 1
    ELSE NthOf(at, k)

SplitAt(text, at) ==
    MapToArray([k \in 1..(Cardinality(at) + 1) |->
                   SubSeq(text, SplitBound(text, at, k - 1) + 1,
                          SplitBound(text, at, k) - 1)])

SplitOn(text, separator) == SplitAt(text, {i \in 1..Len(text) : text[i] = separator})

\* text.trim().split(/\s+/): the maximal runs of characters other than
\* spaces.  Of a text without such a run JavaScript makes one empty part and
\* this makes none; parseFen asks for four.
TokensBetween(text, starts, ends) ==
    MapToArray([k \in 1..Cardinality(starts) |->
                   SubSeq(text, NthOf(starts, k), NthOf(ends, k))])

SplitWhitespace(text) ==
    TokensBetween(text,
        {i \in 1..Len(text) : text[i] # " " /\ (i = 1 \/ text[i - 1] = " ")},
        {i \in 1..Len(text) : text[i] # " " /\ (i = Len(text) \/ text[i + 1] = " ")})

\* parseInt(text, 10): an optional sign and the digits that follow it, the
\* rest of the text ignored; NaN when no digit follows.
NaN == [nan |-> TRUE, value |-> 0]
Parsed(value) == [nan |-> FALSE, value |-> value]

RECURSIVE DigitsValue(_, _, _)
DigitsValue(text, first, last) ==
    IF last < first THEN 0
    ELSE DigitsValue(text, first, last - 1) * 10 + (IndexIn(DIGITS, text[last]) - 1)

LastLeadingDigit(text, first) ==
    IF \A i \in first..Len(text) : IndexIn(DIGITS, text[i]) # 0 THEN Len(text)
    ELSE (CHOOSE i \in first..Len(text) :
              /\ IndexIn(DIGITS, text[i]) = 0
              /\ \A j \in first..(i - 1) : IndexIn(DIGITS, text[j]) # 0) - 1

ParseIntFrom(text, sign, first, last) ==
    IF last < first THEN NaN ELSE Parsed(sign * DigitsValue(text, first, last))

parseInt(text) ==
    IF Len(text) > 0 /\ text[1] = "-"
    THEN ParseIntFrom(text, -1, 2, LastLeadingDigit(text, 2))
    ELSE IF Len(text) > 0 /\ text[1] = "+"
    THEN ParseIntFrom(text, 1, 2, LastLeadingDigit(text, 2))
    ELSE ParseIntFrom(text, 1, 1, LastLeadingDigit(text, 1))

\* Number.prototype.toString of an integer
RECURSIVE NumberToString(_)
NumberToString(n) ==
    IF n < 0 THEN <<"-">> \o NumberToString(-n)
    ELSE IF n < 10 THEN <<DIGITS[n + 1]>>
    ELSE NumberToString(n \div 10) \o <<DIGITS[(n % 10) + 1]>>

\* ok = FALSE stands for the thrown Error.
notationToIndex(notation) ==
    IF IndexIn(FILES, notation[1]) = 0 \/ IndexIn(RANKS, notation[2]) = 0
    THEN [ok |-> FALSE, square |-> NoSquare]
    ELSE [ok |-> TRUE,
          square |-> toSquareIndex(IndexIn(FILES, notation[1]) - 1,
                                   IndexIn(RANKS, notation[2]) - 1)]

indexToNotation_RankFirst(index) == <<RANKS[getRank(index) + 1], FILES[getFile(index) + 1]>>

indexToNotation(index) == <<FILES[getFile(index) + 1], RANKS[getRank(index) + 1]>>

parseSideToMove(side) ==
    IF side = <<"w">> THEN [ok |-> TRUE, color |-> WHITE]
    ELSE IF side = <<"b">> THEN [ok |-> TRUE, color |-> BLACK]
    ELSE [ok |-> FALSE, color |-> WHITE]

parseCastlingRights(castling) ==
    IF castling = <<"-">> THEN CastlingRights(FALSE, FALSE, FALSE, FALSE)
    ELSE CastlingRights(IndexIn(castling, "K") # 0, IndexIn(castling, "Q") # 0,
                        IndexIn(castling, "k") # 0, IndexIn(castling, "q") # 0)

parseEnPassant(ep) ==
    IF ep = <<"-">> THEN [ok |-> TRUE, square |-> NoSquare]
    ELSE IF Len(ep) # 2 THEN [ok |-> FALSE, square |-> NoSquare]
    ELSE notationToIndex(ep)

FenError == [ok |-> FALSE]

ParseFenFields(placement, side, castlingRights, enPassant, halfmove, fullmove) ==
    IF \/ ~placement.ok \/ ~side.ok \/ ~enPassant.ok
       \/ halfmove.nan \/ halfmove.value < 0
       \/ fullmove.nan \/ fullmove.value < 1
    THEN FenError
    ELSE [ok |-> TRUE,
          position |-> Position(placement.board, side.color, castlingRights,
                                enPassant.square, halfmove.value, fullmove.value)]

ParseFenParts(parts) ==
    IF Len(parts) < 4 THEN FenError
    ELSE ParseFenFields(parsePiecePlacement(SplitOn(parts[1], "/")),
                        parseSideToMove(parts[2]),
                        parseCastlingRights(parts[3]),
                        parseEnPassant(parts[4]),
                        IF Len(parts) >= 5 THEN parseInt(parts[5]) ELSE Parsed(0),
                        IF Len(parts) >= 6 THEN parseInt(parts[6]) ELSE Parsed(1))

parseFen(fen) == ParseFenParts(SplitWhitespace(fen))

PIECE_TO_CHAR(piece) ==
    <<"P", "N", "B", "R", "Q", "K", "p", "n", "b", "r", "q", "k">>[piece]

EmptyRun(emptyCount) == IF emptyCount > 0 THEN NumberToString(emptyCount) ELSE <<>>

\* The inner loop of generatePiecePlacement over the files of one rank.
RECURSIVE RankPlacement(_, _, _, _)
RankPlacement(board, rankIdx, fileIdx, emptyCount) ==
    IF fileIdx >= 8 THEN EmptyRun(emptyCount)
    ELSE IF board[toSquareIndex(fileIdx, rankIdx)] = NoPiece
    THEN RankPlacement(board, rankIdx, fileIdx + 1, emptyCount + 1)
    ELSE EmptyRun(emptyCount)
         \o <<PIECE_TO_CHAR(board[toSquareIndex(fileIdx, rankIdx)])>>
         \o RankPlacement(board, rankIdx, fileIdx + 1, 0)

\* Array.prototype.join of the first n parts
RECURSIVE Join(_, _, _)
Join(parts, separator, n) ==
    IF n = 0 THEN <<>>
    ELSE IF n = 1 THEN parts[1]
    ELSE Join(parts, separator, n - 1) \o <<separator>> \o parts[n]

generatePiecePlacement(board) ==
    Join(MapToArray([k \in 1..8 |-> RankPlacement(board, 8 - k, 0, 0)]), "/", 8)

CastlingLetters(rights) ==
    (IF rights.whiteKingside THEN <<"K">> ELSE <<>>)
    \o (IF rights.whiteQueenside THEN <<"Q">> ELSE <<>>)
    \o (IF rights.blackKingside THEN <<"k">> ELSE <<>>)
    \o (IF rights.blackQueenside THEN <<"q">> ELSE <<>>)

generateCastlingRights(rights) ==
    IF CastlingLetters(rights) = <<>> THEN <<"-">> ELSE CastlingLetters(rights)

toFen(position) ==
    Join(<<generatePiecePlacement(position.board),
           <<position.sideToMove>>,
           generateCastlingRights(position.castlingRights),
           IF position.enPassantSquare # NoSquare
           THEN indexToNotation(position.enPassantSquare) ELSE <<"-">>,
           NumberToString(position.halfmoveClock),
           NumberToString(position.fullmoveNumber)>>, " ", 6)

\* ------------------------------------------------------------------------
\* Positions of the test suites and of the checks below, from their FENs
\* ------------------------------------------------------------------------
\* r3k2r/8/8/8/8/8/8/R3K2R w KQkq - 0 1
CASTLING_OPEN ==
    Position(parsePiecePlacement(
        << <<"r", "3", "k", "2", "r">>,
           <<"8">>,
           <<"8">>,
           <<"8">>,
           <<"8">>,
           <<"8">>,
           <<"8">>,
           <<"R", "3", "K", "2", "R">> >>).board,
        WHITE, CastlingRights(TRUE, TRUE, TRUE, TRUE), NoSquare, 0, 1)

\* r3k2r/pppp1ppp/8/4r3/8/8/PPPP1PPP/R3K2R w KQkq - 0 1
CASTLING_ROOK_ON_FILE ==
    Position(parsePiecePlacement(
        << <<"r", "3", "k", "2", "r">>,
           <<"p", "p", "p", "p", "1", "p", "p", "p">>,
           <<"8">>,
           <<"4", "r", "3">>,
           <<"8">>,
           <<"8">>,
           <<"P", "P", "P", "P", "1", "P", "P", "P">>,
           <<"R", "3", "K", "2", "R">> >>).board,
        WHITE, CastlingRights(TRUE, TRUE, TRUE, TRUE), NoSquare, 0, 1)

\* rnbqkbnr/pppp1ppp/8/4pP2/8/8/PPPPP1PP/RNBQKBNR w KQkq e6 0 1
EN_PASSANT_READY ==
    Position(parsePiecePlacement(
        << <<"r", "n", "b", "q", "k", "b", "n", "r">>,
           <<"p", "p", "p", "p", "1", "p", "p", "p">>,
           <<"8">>,
           <<"4", "p", "P", "2">>,
           <<"8">>,
           <<"8">>,
           <<"P", "P", "P", "P", "P", "1", "P", "P">>,
           <<"R", "N", "B", "Q", "K", "B", "N", "R">> >>).board,
        WHITE, CastlingRights(TRUE, TRUE, TRUE, TRUE), 44, 0, 1)

\* 8/P7/8/8/8/8/8/4K2k w - - 0 1
PROMOTION_READY ==
    Position(parsePiecePlacement(
        << <<"8">>,
           <<"P", "7">>,
           <<"8">>,
           <<"8">>,
           <<"8">>,
           <<"8">>,
           <<"8">>,
           <<"4", "K", "2", "k">> >>).board,
        WHITE, CastlingRights(FALSE, FALSE, FALSE, FALSE), NoSquare, 0, 1)

\* 4k3/8/8/8/8/4r3/4B3/4K3 w - - 0 1
PINNED_BISHOP ==
    Position(parsePiecePlacement(
        << <<"4", "k", "3">>,
           <<"8">>,
           <<"8">>,
           <<"8">>,
           <<"8">>,
           <<"4", "r", "3">>,
           <<"4", "B", "3">>,
           <<"4", "K", "3">> >>).board,
        WHITE, CastlingRights(FALSE, FALSE, FALSE, FALSE), NoSquare, 0, 1)

\* The positions a game of the model starts from, by name.
GamePosition(name) ==
    CASE name = "start" -> createStartingPosition
      [] name = "kiwipete" -> KIWIPETE
      [] name = "castlingOpen" -> CASTLING_OPEN
      [] name = "castlingRookOnFile" -> CASTLING_ROOK_ON_FILE
      [] name = "enPassantReady" -> EN_PASSANT_READY
      [] name = "promotionReady" -> PROMOTION_READY
      [] OTHER -> PINNED_BISHOP

GamePositionNames ==
    {"start", "kiwipete", "castlingOpen", "castlingRookOnFile", "enPassantReady",
     "promotionReady", "pinnedBishop"}

\* 6k1/5ppp/8/8/8/8/8/R3K3 w Q - 0 1
MATE_IN_ONE ==
    Position(parsePiecePlacement(
        << <<"6", "k", "1">>,
           <<"5", "p", "p", "p">>,
           <<"8">>,
           <<"8">>,
           <<"8">>,
           <<"8">>,
           <<"8">>,
           <<"R", "3", "K", "3">> >>).board,
        WHITE, CastlingRights(FALSE, TRUE, FALSE, FALSE), NoSquare, 0, 1)

\* 4k3/8/8/3p4/4P3/8/8/4K3 w - - 0 1
PAWN_TENSION ==
    Position(parsePiecePlacement(
        << <<"4", "k", "3">>,
           <<"8">>,
           <<"8">>,
           <<"3", "p", "4">>,
           <<"4", "P", "3">>,
           <<"8">>,
           <<"8">>,
           <<"4", "K", "3">> >>).board,
        WHITE, CastlingRights(FALSE, FALSE, FALSE, FALSE), NoSquare, 0, 1)

\* k7/8/8/8/8/8/6r1/K7 w - - 0 1
ONE_LEGAL_MOVE ==
    Position(parsePiecePlacement(
        << <<"k", "7">>,
           <<"8">>,
           <<"8">>,
           <<"8">>,
           <<"8">>,
           <<"8">>,
           <<"6", "r", "1">>,
           <<"K", "7">> >>).board,
        WHITE, CastlingRights(FALSE, FALSE, FALSE, FALSE), NoSquare, 0, 1)

\* The positions searched, by name.
SearchPosition(name) ==
    CASE name = "mateInOne" -> MATE_IN_ONE
      [] name = "pawnTension" -> PAWN_TENSION
      [] OTHER -> ONE_LEGAL_MOVE

SearchPositionNames == {"mateInOne", "pawnTension", "oneLegalMove"}

\* ------------------------------------------------------------------------
\* State
\* ------------------------------------------------------------------------
VARIABLES
    game,           \* the name of the position the run started from
    position,       \* the position on the board
    ply,            \* the number of moves played on it
    lastMove,       \* the move that led to it, NoMove at the start
    lastRejected,   \* how many pseudo-legal moves the legality filter
                    \* rejected in the position lastMove was played in
    perftRun,       \* the perft test run on the position, NoPerft if none
    engine,         \* the killer, history and transposition tables
    call,           \* the last call of search or calculateAiMove, NoCall if none
    calls,          \* the number of calls made
    earlier,        \* the searches run before the last call
    toWorker,       \* the messages posted to the worker and not yet handled
    toMain,         \* the messages the worker posted and not yet handled
    worker,         \* the module state of the worker; searching is the
                    \* search calculateAiMove is running for, 0 if none,
                    \* and returns what it is about to return
    wrapper,        \* the fields of the EngineWorker on the main thread:
                    \* pendingSearch is the search whose promise it holds,
                    \* 0 if none, timers the searches whose timeout is
                    \* set, stops the number of calls of stop from outside
    searches,       \* the searches asked of the EngineWorker, with the
                    \* promise each returned
    fenRun,         \* a FEN text or a position taken through parseFen and
                    \* toFen, NoFenRun if none
    tableRun,       \* a transposition table of its own under a sequence of
                    \* stores, NoTableRun if none
    killerRun,      \* a killer table of its own under a sequence of
                    \* insertions, NoKillerRun if none
    unitRun,        \* a function of the engine applied to inputs of its
                    \* own, NoUnitRun if none
    controller      \* the fields of the GameController, NoController if
                    \* none

workerVars == <<toWorker, toMain, worker, wrapper, searches>>

unitVars == <<fenRun, tableRun, killerRun, unitRun, controller>>

vars == <<game, position, ply, lastMove, lastRejected, perftRun,
          engine, call, calls, earlier,
          toWorker, toMain, worker, wrapper, searches,
          fenRun, tableRun, killerRun, unitRun, controller>>

NoFenRun == [stage |-> "none"]
NoTableRun == [stores |-> 0]
NoKillerRun == [adds |-> 0]

NoUnitRun == [unit |-> "none"]
NoController == [mode |-> "none"]

UnitsIdle ==
    /\ fenRun = NoFenRun /\ tableRun = NoTableRun /\ killerRun = NoKillerRun
    /\ unitRun = NoUnitRun /\ controller = NoController

NoPerft == [depth |-> 0, nodes |-> 0]
NoCall == [kind |-> "none"]

\* No value of calculateAiMove to return.
NoReturn == [shouldStop |-> FALSE, iterations |-> <<>>, result |-> [bestMove |-> NoMove]]

\* The worker and the EngineWorker after construction: the worker has
\* signalled that it is ready, and the message is on its way. The position
\* the worker holds is kept by its name (WorkerPosition gives the position):
\* handleInit sets createStartingPosition.
WorkerStarted ==
    /\ toWorker = <<>>
    /\ toMain = <<[type |-> "init", success |-> TRUE]>>
    /\ worker = [currentPosition |-> "start",
                 isSearching |-> FALSE, shouldStop |-> FALSE,
                 searching |-> 0, returns |-> NoReturn]
    /\ wrapper = [isReady |-> FALSE, pendingSearch |-> 0, timers |-> {}, stops |-> 0]
    /\ searches = <<>>

\* ------------------------------------------------------------------------
\* Playing legal moves and running the perft tests (the specification Spec)
\* ------------------------------------------------------------------------
MaxPly == 2

\* Kiwipete branches widest; games from it are one ply shorter.
PlyLimit(name) == IF name = "kiwipete" THEN MaxPly - 1 ELSE MaxPly

\* The depths the perft tests run to.
PerftDepths(name) ==
    IF name = "start" THEN {1, 2, 3}
    ELSE IF name = "kiwipete" THEN {1, 2} ELSE {}

Init ==
    /\ game \in GamePositionNames
    /\ position = GamePosition(game)
    /\ ply = 0
    /\ lastMove = NoMove
    /\ lastRejected = 0
    /\ perftRun = NoPerft
    /\ engine = NewEngine
    /\ call = NoCall
    /\ calls = 0
    /\ earlier = {}
    /\ WorkerStarted
    /\ UnitsIdle

\* One of the legal moves is played; pseudoLegal are the moves they were
\* filtered from.
MovePlayed(pseudoLegal, legalMoves) ==
    \E i \in 1..Len(legalMoves) :
        /\ position' = makeMove(position, legalMoves[i])
        /\ lastMove' = legalMoves[i]
        /\ lastRejected' = Len(pseudoLegal) - Len(legalMoves)

\* A legal move is played on the board.
PlayMove ==
    /\ perftRun = NoPerft
    /\ ply < PlyLimit(game)
    /\ MovePlayed(generatePseudoLegalMoves(position), generateLegalMoves(position))
    /\ ply' = ply + 1
    /\ UNCHANGED <<game, perftRun, engine, call, calls, earlier>>
    /\ UNCHANGED workerVars
    /\ UNCHANGED unitVars

\* A perft test counts the move paths of the given length from the position.
RunPerft(depth) ==
    /\ perftRun = NoPerft
    /\ ply = 0
    /\ depth \in PerftDepths(game)
    /\ perftRun' = [depth |-> depth, nodes |-> perft(position, depth)]
    /\ UNCHANGED <<game, position, ply, lastMove, lastRejected,
                   engine, call, calls, earlier>>
    /\ UNCHANGED workerVars
    /\ UNCHANGED unitVars

Next ==
    \/ PlayMove
    \/ \E depth \in 1..3 : RunPerft(depth)

Spec == Init /\ [][Next]_vars


\* ------------------------------------------------------------------------
\* Properties of the move generator
\* ------------------------------------------------------------------------
\* C1: in every position reached by a legal move, the king of the side that
\* just moved is not attacked, and no pseudo-legal reply of the opponent
\* lands on its square.
C1_LegalMoveLeavesKingSafe ==
    lastMove # NoMove =>
        LET mover == oppositeColor(position.sideToMove)
            kingSquare == findKing(position.board, mover)
            replies == generatePseudoLegalMoves(position)
        IN  /\ kingSquare # NoSquare
            /\ ~isSquareAttacked(position.board, kingSquare, position.sideToMove)
            /\ \A i \in 1..Len(replies) : replies[i].to # kingSquare

\* A legal move was played in a position where the filter had rejected a
\* pseudo-legal move.
C1_Witness == lastMove # NoMove /\ lastRejected > 0

\* The castling move of the side to move on the wing is among the legal moves.
CastlingIsLegal(wing) ==
    LET legalMoves == generateLegalMoves(position)
        kind == IF wing = "K" THEN CASTLING_KINGSIDE ELSE CASTLING_QUEENSIDE
    IN  \E i \in 1..Len(legalMoves) :
            /\ legalMoves[i].moveType = kind
            /\ legalMoves[i].piece = makePiece(KING, position.sideToMove)

\* The conditions of castling, stated on the board: files e = 4, rook on
\* h = 7 or a = 0, the king ends on g = 6 or c = 2.
CastlingConditions(wing) ==
    LET color == position.sideToMove
        enemy == oppositeColor(color)
        rank == IF color = WHITE THEN 0 ELSE 7
        right == IF color = WHITE
                 THEN IF wing = "K" THEN position.castlingRights.whiteKingside
                      ELSE position.castlingRights.whiteQueenside
                 ELSE IF wing = "K" THEN position.castlingRights.blackKingside
                      ELSE position.castlingRights.blackQueenside
        between == IF wing = "K" THEN {5, 6} ELSE {1, 2, 3}
        passed == IF wing = "K" THEN {5, 6} ELSE {3, 2}
    IN  /\ right
        /\ position.board[rank * 8 + 4] = makePiece(KING, color)
        /\ ~isSquareAttacked(position.board, rank * 8 + 4, enemy)
        /\ \A file \in between : position.board[rank * 8 + file] = NoPiece
        /\ \A file \in passed : ~isSquareAttacked(position.board, rank * 8 + file, enemy)

\* C9: the legal moves contain the castling move of a wing exactly when the
\* right is held, the king is on its home square and not attacked, the squares
\* between king and rook are empty and the squares the king passes through,
\* destination included, are not attacked.
C9_CastlingExactlyWhenAllowed ==
    perftRun = NoPerft =>
        \A wing \in {"K", "Q"} : CastlingIsLegal(wing) <=> CastlingConditions(wing)

\* After a move, a side may castle on one wing while its right on the other
\* wing is held but the conditions there fail.
C9_Witness ==
    /\ lastMove # NoMove
    /\ \E wing \in {"K", "Q"} : CastlingIsLegal(wing)
    /\ \E wing \in {"K", "Q"} :
           /\ hasCastlingRight(position.castlingRights, position.sideToMove, wing)
           /\ ~CastlingConditions(wing)

\* C10: perft gives 20, 400 and 8902 paths of length 1, 2 and 3 from the
\* starting position and 48 and 2039 of length 1 and 2 from Kiwipete.
C10_PerftCounts ==
    perftRun # NoPerft =>
        /\ game = "start" /\ perftRun.depth = 1 => perftRun.nodes = 20
        /\ game = "start" /\ perftRun.depth = 2 => perftRun.nodes = 400
        /\ game = "start" /\ perftRun.depth = 3 => perftRun.nodes = 8902
        /\ game = "kiwipete" /\ perftRun.depth = 1 => perftRun.nodes = 48
        /\ game = "kiwipete" /\ perftRun.depth = 2 => perftRun.nodes = 2039

\* The deepest perft test of Kiwipete has run.
C10_Witness == game = "kiwipete" /\ perftRun.depth = 2 /\ perftRun.nodes > 0

\* ------------------------------------------------------------------------
\* Invariants of the positions of a game
\* ------------------------------------------------------------------------
KingsOf(board, color) == {square \in 0..63 : board[square] = makePiece(KING, color)}

\* C11: every position of a game has exactly one white king and exactly one
\* black king.
C11_OneKingOfEachColor ==
    /\ Cardinality(KingsOf(position.board, WHITE)) = 1
    /\ Cardinality(KingsOf(position.board, BLACK)) = 1

\* A side has castled after a capture was possible: the king and a rook
\* moved in one move.
C11_Witness ==
    /\ lastMove # NoMove
    /\ lastMove.moveType \in {CASTLING_KINGSIDE, CASTLING_QUEENSIDE}
    /\ ply = MaxPly

RightImpliesHome(color, wing) ==
    hasCastlingRight(position.castlingRights, color, wing) =>
        /\ position.board[KING_START(color)] = makePiece(KING, color)
        /\ position.board[ROOK_START(color, wing)] = makePiece(ROOK, color)

RightsImplyHome ==
    \A color \in {WHITE, BLACK}, wing \in {"K", "Q"} : RightImpliesHome(color, wing)

RightsNotRestored ==
    \A color \in {WHITE, BLACK}, wing \in {"K", "Q"} :
        hasCastlingRight(position'.castlingRights, color, wing) =>
            hasCastlingRight(position.castlingRights, color, wing)

\* C12: a castling right that is set implies that the king and the rook of
\* that wing stand on their home squares, and no move sets a right that the
\* position before it did not hold.
C12_CastlingRightsSound == [](RightsImplyHome) /\ [][RightsNotRestored]_vars

\* A rook was captured on its home square and the right of its wing is gone
\* while the other right of that colour is still held.
C12_Witness ==
    /\ lastMove # NoMove
    /\ lastMove.captured # NoPiece
    /\ \E color \in {WHITE, BLACK}, wing \in {"K", "Q"}, other \in {"K", "Q"} :
           /\ lastMove.to = ROOK_START(color, wing)
           /\ color = position.sideToMove
           /\ ~hasCastlingRight(position.castlingRights, color, wing)
           /\ hasCastlingRight(position.castlingRights, color, other)

TwoRankPawnAdvance(move) ==
    /\ pieceType(move.piece) = PAWN
    /\ Abs(getRank(move.to) - getRank(move.from)) = 2

\* C13: after a move the en passant square is set exactly when the move was
\* a two-rank pawn advance; it is then the square the pawn skipped, on rank 3
\* when Black is to move and on rank 6 when White is to move, with the pawn
\* that advanced directly beyond it.
C13_EnPassantSquareAfterDoubleStep ==
    lastMove # NoMove =>
        /\ position.enPassantSquare # NoSquare <=> TwoRankPawnAdvance(lastMove)
        /\ position.enPassantSquare # NoSquare =>
              /\ 2 * position.enPassantSquare = lastMove.from + lastMove.to
              /\ getRank(position.enPassantSquare) =
                     (IF position.sideToMove = BLACK THEN 2 ELSE 5)
              /\ position.board[lastMove.to] =
                     makePiece(PAWN, oppositeColor(position.sideToMove))
              /\ lastMove.to = position.enPassantSquare
                               + (IF position.sideToMove = BLACK THEN 8 ELSE -8)

\* Black has answered with a two-rank advance of a pawn.
C13_Witness ==
    /\ lastMove # NoMove
    /\ position.sideToMove = WHITE
    /\ position.enPassantSquare # NoSquare
    /\ TwoRankPawnAdvance(lastMove)


\* ------------------------------------------------------------------------
\* Searching a position (the specification SearchSpec)
\* ------------------------------------------------------------------------
MaxCalls == 2
MaxSearchDepth == 2
MaxTimeChecks == 2

\* The time check at which the clock of a call runs out.
ClockChoices == (1..MaxTimeChecks) \cup {NoCutoff}

\* The draws of Math.random() tried: the least, and one above every
\* probability of the levels.
DrawChoices == {0, 999}
NoiseChoices == {<<500>>, <<0, 999>>}
RandomDraws ==
    [blunder : DrawChoices, blunderPick : DrawChoices,
     mistake : DrawChoices, mistakePick : DrawChoices, noise : NoiseChoices]

\* Searches deeper than MaxSearchDepth are run where they end early: on the
\* position with a mate in one, or against a clock that has run out at the
\* first check.
SearchableOn(name, maxDepth, expireAt) ==
    maxDepth <= MaxSearchDepth \/ expireAt = 1 \/ name = "mateInOne"

Searchable(maxDepth, expireAt) == SearchableOn(game, maxDepth, expireAt)

\* What a call returned, for comparison with later calls.
Outcome(result) ==
    [bestMove |-> result.bestMove, evaluation |-> result.evaluation,
     depth |-> result.depth, principalVariation |-> result.principalVariation]

\* The searches run so far, the last call's among them.
Remembered ==
    IF call # NoCall
    THEN earlier \cup {[maxDepth |-> call.maxDepth, expireAt |-> call.expireAt,
                        outcome |-> Outcome(call.searched)]}
    ELSE earlier

\* No draw taken.
NoDraws ==
    [blunder |-> 0, blunderPick |-> 0, mistake |-> 0, mistakePick |-> 0,
     noise |-> <<500>>]

InitSearch ==
    /\ game \in SearchPositionNames
    /\ position = SearchPosition(game)
    /\ ply = 0
    /\ lastMove = NoMove
    /\ lastRejected = 0
    /\ perftRun = NoPerft
    /\ engine = NewEngine
    /\ call = NoCall
    /\ calls = 0
    /\ earlier = {}
    /\ WorkerStarted
    /\ UnitsIdle

\* The call is recorded with what it returned; run is what search returned
\* and result the SearchResult handed to the caller.
RecordCall(kind, difficulty, playStyle, draws, maxDepth, expireAt, run, result) ==
    /\ engine' = run.engine
    /\ call' = [kind |-> kind, difficulty |-> difficulty,
                playStyle |-> playStyle, draws |-> draws,
                maxDepth |-> maxDepth, expireAt |-> expireAt,
                searched |-> run.result, result |-> result,
                iterations |-> run.iterations, shouldStop |-> run.shouldStop]
    /\ calls' = calls + 1
    /\ earlier' = Remembered
    /\ UNCHANGED <<game, position, ply, lastMove, lastRejected, perftRun>>
    /\ UNCHANGED workerVars
    /\ UNCHANGED unitVars

SearchReturned(maxDepth, expireAt, run) ==
    RecordCall("search", "none", "none", NoDraws, maxDepth, expireAt, run, run.result)

\* search(position, {maxDepth, maxTimeMs}) is called; the clock runs out at
\* time check expireAt.
Search(maxDepth, expireAt) ==
    /\ calls < MaxCalls
    /\ call.kind # "ai"
    /\ Searchable(maxDepth, expireAt)
    /\ SearchReturned(maxDepth, expireAt,
                      search(position, maxDepth, expireAt, engine))

\* The outcomes of the draws applyHumanBehavior makes with count legal moves:
\* a draw it does not come to is left at its first value.
DrawsTaken(config, count) ==
    {draws \in RandomDraws :
        LET blunders == count > 1 /\ draws.blunder < config.blunderProbability
            mistakes == count > 1 /\ ~blunders
                        /\ draws.mistake < config.mistakeProbability
        IN  /\ count <= 1 => draws.blunder = 0
            /\ ~blunders => draws.blunderPick = 0
            /\ (count <= 1 \/ blunders) => draws.mistake = 0
            /\ ~mistakes => draws.mistakePick = 0 /\ draws.noise = NoDraws.noise}

\* calculateAiMove after its search: applyHumanBehavior under each of the
\* draws.
HumanBehaviorApplied(difficulty, config, expireAt, run, legalMoves, baseScores) ==
    \E playStyle \in PlayStyles, draws \in DrawsTaken(config, Len(legalMoves)) :
        RecordCall("ai", difficulty, playStyle, draws, config.maxDepth, expireAt, run,
                   applyHumanBehavior(legalMoves, baseScores, run.result, config,
                                      playStyle, draws))

AiMoveSearched(difficulty, config, expireAt, run, legalMoves) ==
    HumanBehaviorApplied(difficulty, config, expireAt, run, legalMoves,
                         BaseScores(position, legalMoves))

\* calculateAiMove(position, difficulty, playStyle) is called: the search
\* with the depth of the level, then applyHumanBehavior.  The move it returns
\* is played, so it ends the calls on this position.
CalculateAiMove(difficulty, expireAt) ==
    /\ calls < MaxCalls
    /\ call.kind # "ai"
    /\ Searchable(DIFFICULTY_CONFIGS(difficulty).maxDepth, expireAt)
    /\ AiMoveSearched(difficulty, DIFFICULTY_CONFIGS(difficulty), expireAt,
           search(position, DIFFICULTY_CONFIGS(difficulty).maxDepth, expireAt, engine),
           generateLegalMoves(position))

NextSearch ==
    \/ \E maxDepth \in 1..MaxSearchDepth, expireAt \in ClockChoices :
           Search(maxDepth, expireAt)
    \/ \E difficulty \in Difficulties, expireAt \in ClockChoices :
           CalculateAiMove(difficulty, expireAt)

SearchSpec == InitSearch /\ [][NextSearch]_vars

\* ------------------------------------------------------------------------
\* The engine worker (worker/engine.worker) and the EngineWorker that wraps
\* it on the main thread
\* ------------------------------------------------------------------------

MaxRequests == 2
MaxStops == 1
WorkerPositionNames == {"pawnTension", "mateInOne"}
WorkerDifficulties == {"expert"}
WorkerClocks == {1, NoCutoff}

\* parseFenSafe of the FEN of a named position
WorkerPosition(fen) ==
    IF fen = "start" THEN createStartingPosition ELSE SearchPosition(fen)

StopMessage == [type |-> "stop"]

\* The promise search() returns for a request, with what became of it.
\* stoppedInFlight: stop() was posted while calculateAiMove was running for
\* it; returned: what calculateAiMove returned for it.
NewSearch(fen, difficulty) ==
    [fen |-> fen, difficulty |-> difficulty, promise |-> "pending",
     value |-> NoReturn.result, stoppedInFlight |-> FALSE, done |-> FALSE,
     returned |-> NoReturn]

\* EngineWorker.stop on the fields of the wrapper: the timeout of the pending
\* search is cleared and the pending search is dropped, its promise left as
\* it is.
StopPending(w) ==
    [w EXCEPT !.timers = @ \ {w.pendingSearch}, !.pendingSearch = 0]

StopInFlight(all) ==
    IF worker.searching = 0 THEN all
    ELSE [all EXCEPT ![worker.searching].stoppedInFlight = TRUE]

Settle(all, id, promise, value) ==
    IF id = 0 \/ all[id].promise # "pending" THEN all
    ELSE [all EXCEPT ![id].promise = promise, ![id].value = value]

\* GameController.triggerAiMove: worker.setPosition(fen), then
\* worker.search(options) once the worker is ready: a search still pending
\* is stopped, the timeout is set, the promise kept and 'search' posted.
RequestSearch(fen, difficulty, playStyle) ==
    /\ wrapper.isReady
    /\ Len(searches) < MaxRequests
    /\ toWorker' = toWorker
                   \o <<[type |-> "setPosition", fen |-> fen]>>
                   \o (IF wrapper.pendingSearch # 0 THEN <<StopMessage>> ELSE <<>>)
                   \o <<[type |-> "search", difficulty |-> difficulty,
                         playStyle |-> playStyle, id |-> Len(searches) + 1]>>
    /\ wrapper' = [(IF wrapper.pendingSearch # 0 THEN StopPending(wrapper) ELSE wrapper)
                      EXCEPT !.pendingSearch = Len(searches) + 1,
                             !.timers = @ \cup {Len(searches) + 1}]
    /\ searches' = Append(IF wrapper.pendingSearch # 0 THEN StopInFlight(searches)
                          ELSE searches,
                          NewSearch(fen, difficulty))
    /\ UNCHANGED <<toMain, worker>>
    /\ UNCHANGED <<game, position, ply, lastMove, lastRejected, perftRun, engine,
                   call, calls, earlier>>
    /\ UNCHANGED unitVars

\* EngineWorker.stop called by the owner of the wrapper
Stop ==
    /\ wrapper.stops < MaxStops
    /\ toWorker' = Append(toWorker, StopMessage)
    /\ wrapper' = [StopPending(wrapper) EXCEPT !.stops = @ + 1]
    /\ searches' = StopInFlight(searches)
    /\ UNCHANGED <<toMain, worker>>
    /\ UNCHANGED <<game, position, ply, lastMove, lastRejected, perftRun, engine,
                   call, calls, earlier>>
    /\ UNCHANGED unitVars

\* The timeout search() set for a request fires: stop(), then the promise of
\* the request is rejected.
SearchTimeout(id) ==
    /\ id \in wrapper.timers
    /\ toWorker' = Append(toWorker, StopMessage)
    /\ wrapper' = [StopPending(wrapper) EXCEPT !.timers = @ \ {id}]
    /\ searches' = Settle(StopInFlight(searches), id, "rejected", NoReturn.result)
    /\ UNCHANGED <<toMain, worker>>
    /\ UNCHANGED <<game, position, ply, lastMove, lastRejected, perftRun, engine,
                   call, calls, earlier>>
    /\ UNCHANGED unitVars

\* EngineWorker.handleMessage on the next message from the worker
WrapperHandleMessage ==
    /\ toMain # <<>>
    /\ toMain' = Tail(toMain)
    /\ CASE Head(toMain).type = "init" ->
                /\ wrapper' = [wrapper EXCEPT !.isReady = Head(toMain).success]
                /\ UNCHANGED searches
         [] Head(toMain).type = "result" ->
                /\ wrapper' = IF wrapper.pendingSearch # 0 THEN StopPending(wrapper)
                              ELSE wrapper
                /\ searches' = Settle(searches, wrapper.pendingSearch, "resolved",
                                      Head(toMain).result)
         [] OTHER ->
                /\ wrapper' = [wrapper EXCEPT !.pendingSearch = 0]
                /\ searches' = Settle(searches, wrapper.pendingSearch, "rejected",
                                      NoReturn.result)
    /\ UNCHANGED <<toWorker, worker>>
    /\ UNCHANGED <<game, position, ply, lastMove, lastRejected, perftRun, engine,
                   call, calls, earlier>>
    /\ UNCHANGED unitVars

\* The worker takes a message only between handlers: handleSearch runs
\* calculateAiMove to its end before the next message is looked at.
WorkerReceives(type) ==
    /\ worker.searching = 0
    /\ toWorker # <<>>
    /\ Head(toWorker).type = type
    /\ toWorker' = Tail(toWorker)

handleSetPosition ==
    /\ WorkerReceives("setPosition")
    /\ worker' = [worker EXCEPT !.currentPosition = Head(toWorker).fen]
    /\ UNCHANGED <<toMain, wrapper, searches>>
    /\ UNCHANGED <<game, position, ply, lastMove, lastRejected, perftRun, engine,
                   call, calls, earlier>>
    /\ UNCHANGED unitVars

handleStop ==
    /\ WorkerReceives("stop")
    /\ worker' = [worker EXCEPT !.shouldStop = TRUE]
    /\ UNCHANGED <<toMain, wrapper, searches>>
    /\ UNCHANGED <<game, position, ply, lastMove, lastRejected, perftRun, engine,
                   call, calls, earlier>>
    /\ UNCHANGED unitVars

\* handleSearch up to the return of calculateAiMove: the flags are set and
\* the call runs on the position the worker holds, with a state of its own
\* (createSearchState) and the transposition table of the module.
SearchRunning(id, returns) ==
    worker' = [worker EXCEPT !.isSearching = TRUE, !.shouldStop = FALSE,
                             !.searching = id, !.returns = returns]

WorkerBehaviorApplied(options, config, run, legalMoves, baseScores) ==
    \E draws \in DrawsTaken(config, Len(legalMoves)) :
        /\ SearchRunning(options.id,
               [shouldStop |-> run.shouldStop, iterations |-> run.iterations,
                result |-> applyHumanBehavior(legalMoves, baseScores, run.result,
                                              config, options.playStyle, draws)])
        /\ engine' = run.engine

WorkerAiMoveSearched(searched, options, config, run, legalMoves) ==
    WorkerBehaviorApplied(options, config, run, legalMoves,
                          BaseScores(searched, legalMoves))

WorkerCalculateAiMove(searched, options, config, expireAt) ==
    WorkerAiMoveSearched(searched, options, config,
                         search(searched, config.maxDepth, expireAt, engine),
                         generateLegalMoves(searched))

handleSearch ==
    /\ WorkerReceives("search")
    /\ IF worker.isSearching
       THEN /\ toMain' = Append(toMain, [type |-> "error"])
            /\ UNCHANGED <<worker, engine>>
       ELSE /\ \E expireAt \in WorkerClocks :
                   /\ SearchableOn(worker.currentPosition,
                                   DIFFICULTY_CONFIGS(Head(toWorker).difficulty).maxDepth,
                                   expireAt)
                   /\ WorkerCalculateAiMove(WorkerPosition(worker.currentPosition),
                          Head(toWorker),
                          DIFFICULTY_CONFIGS(Head(toWorker).difficulty), expireAt)
            /\ UNCHANGED toMain
    /\ UNCHANGED <<wrapper, searches>>
    /\ UNCHANGED <<game, position, ply, lastMove, lastRejected, perftRun,
                   call, calls, earlier>>
    /\ UNCHANGED unitVars

\* handleSearch from the return of calculateAiMove: the result is posted
\* unless shouldStop is set, and isSearching is cleared.
SearchReturns ==
    /\ worker.searching # 0
    /\ toMain' = IF worker.shouldStop THEN toMain
                 ELSE Append(toMain, [type |-> "result",
                                      result |-> worker.returns.result])
    /\ worker' = [worker EXCEPT !.isSearching = FALSE, !.searching = 0,
                                !.returns = NoReturn]
    /\ searches' = [searches EXCEPT ![worker.searching].done = TRUE,
                                    ![worker.searching].returned = worker.returns]
    /\ UNCHANGED <<toWorker, wrapper>>
    /\ UNCHANGED <<game, position, ply, lastMove, lastRejected, perftRun, engine,
                   call, calls, earlier>>
    /\ UNCHANGED unitVars

InitWorker ==
    /\ game = "start"
    /\ position = createStartingPosition
    /\ ply = 0
    /\ lastMove = NoMove
    /\ lastRejected = 0
    /\ perftRun = NoPerft
    /\ engine = NewEngine
    /\ call = NoCall
    /\ calls = 0
    /\ earlier = {}
    /\ WorkerStarted
    /\ UnitsIdle

NextWorker ==
    \/ \E fen \in WorkerPositionNames, difficulty \in WorkerDifficulties :
           RequestSearch(fen, difficulty, "balanced")
    \/ Stop
    \/ \E id \in 1..MaxRequests : SearchTimeout(id)
    \/ WrapperHandleMessage
    \/ handleSetPosition
    \/ handleStop
    \/ handleSearch
    \/ SearchReturns

WorkerSpec == InitWorker /\ [][NextWorker]_vars

\* ------------------------------------------------------------------------
\* Properties of search and calculateAiMove
\* ------------------------------------------------------------------------
NoTimeCutoff(run) == run.expireAt = NoCutoff

\* C2: with no time cutoff, search is a function of the position and the
\* maximum depth: a call returns the best move, evaluation, depth and
\* principal variation that every earlier call on the same position with the
\* same maximum depth returned, whatever the engine searched in between.
C2_SearchIsPureFunction ==
    (call # NoCall /\ NoTimeCutoff(call)) =>
        \A run \in earlier :
            (NoTimeCutoff(run) /\ run.maxDepth = call.maxDepth)
                => run.outcome = Outcome(call.searched)

IsOneOf(move, moves) == \E i \in 1..Len(moves) : moves[i] = move

IsLegalMove(move) == IsOneOf(move, generateLegalMoves(position))

\* C3: on a position with a legal move, the best move of search and the
\* best move of calculateAiMove are legal moves of the position, at every
\* maximum depth, under every clock (one that has run out at the first
\* check included), at every level and for every outcome of the draws.
C3_BestMoveIsLegal ==
    call # NoCall =>
        /\ IsLegalMove(call.searched.bestMove)
        /\ IsLegalMove(call.result.bestMove)

\* calculateAiMove has replaced the move of a search whose clock had run out
\* at the first check.
C3_Witness ==
    /\ call # NoCall
    /\ call.kind = "ai"
    /\ call.expireAt = 1
    /\ call.draws.blunder = 0
    /\ call.result.bestMove # call.searched.bestMove

\* The variables of the deepening loop at the end of the n-th iteration run.
RECURSIVE RecordedThrough(_, _, _)
RecordedThrough(searched, iterations, n) ==
    IF n = 0 THEN NothingRecorded
    ELSE RecordIteration(searched, iterations[n].depth,
                         RecordedThrough(searched, iterations, n - 1), iterations[n])

\* The clock ran out during the last iteration run, and not before it.
TimedOutDuring(iterations, d) ==
    /\ d = Len(iterations)
    /\ d >= 2
    /\ iterations[d].stopped
    /\ ~iterations[d - 1].stopped

\* C5: when the clock runs out during iteration d >= 2, search returns the
\* best move, evaluation, principal variation and depth recorded at the end
\* of iteration d - 1.
C5_TimeoutReturnsPreviousIteration ==
    (call # NoCall /\ TimedOutDuring(call.iterations, Len(call.iterations))) =>
        LET recorded == RecordedThrough(position, call.iterations,
                                        Len(call.iterations) - 1)
        IN  /\ call.searched.bestMove = recorded.bestMove
            /\ call.searched.evaluation = recorded.bestEvaluation
            /\ call.searched.principalVariation = recorded.bestPv
            /\ call.searched.depth = recorded.completedDepth

\* C6: when the clock runs out before the iteration of depth 1 completes,
\* search returns the first legal move and its explanation holds a warning.
C6_FirstMoveWithWarning ==
    (call # NoCall /\ call.iterations[1].stopped) =>
        /\ call.searched.bestMove = generateLegalMoves(position)[1]
        /\ \E i \in 1..Len(call.searched.explanation) :
               call.searched.explanation[i].about = "warning"

\* C7: with no time cutoff, search reports a completed depth between 1 and
\* the maximum depth, the maximum depth unless the evaluation is a mate
\* score, and a principal variation that begins with the best move, on every
\* call.
C7_CompletedDepthAndVariation ==
    (call # NoCall /\ NoTimeCutoff(call)) =>
        /\ call.searched.depth >= 1
        /\ call.searched.depth <= call.maxDepth
        /\ \/ call.searched.depth = call.maxDepth
           \/ Abs(call.searched.evaluation) >= MATE_SCORE - 100
        /\ Len(call.searched.principalVariation) > 0
        /\ call.searched.principalVariation[1] = call.searched.bestMove

\* C8: at the Expert level calculateAiMove returns the best move of its
\* search, for every outcome of the draws.
C8_ExpertReturnsSearchMove ==
    (call # NoCall /\ call.kind = "ai" /\ call.difficulty = "expert") =>
        call.result.bestMove = call.searched.bestMove

\* Expert has moved on a position with a choice of moves, with the least
\* outcome of both draws.
C8_Witness ==
    /\ call # NoCall
    /\ call.kind = "ai"
    /\ call.difficulty = "expert"
    /\ Len(generateLegalMoves(position)) > 1
    /\ call.draws.blunder = 0
    /\ call.draws.mistake = 0
    /\ call.result.bestMove = call.searched.bestMove

\* The worker is idle and no message is under way.
Quiet == toWorker = <<>> /\ toMain = <<>> /\ worker.searching = 0

LastCompleted(iterations) ==
    Cardinality({d \in 1..Len(iterations) : ~iterations[d].stopped})

\* What the stop of a search promises: the search returned early and its
\* promise was resolved with the best move of the iterations it completed.
StoppedSearchDelivers(request) ==
    /\ request.returned.shouldStop
    /\ request.promise = "resolved"
    /\ request.value.bestMove =
           RecordedThrough(WorkerPosition(request.fen), request.returned.iterations,
                           LastCompleted(request.returned.iterations)).bestMove

\* C4: a stop request sent while a search is in flight makes the search
\* return early, and the result delivered to the caller holds the best move
\* of the most recent iteration the search completed.  Looked at once the
\* search has returned, the worker is idle and no message is under way.
C4_StopDeliversLastCompleted ==
    \A id \in 1..Len(searches) :
        (Quiet /\ searches[id].stoppedInFlight /\ searches[id].done) =>
            StoppedSearchDelivers(searches[id])

\* ------------------------------------------------------------------------
\* FEN conversions and check detection, one run at a time: a run is given a
\* text or a position and is taken through parseFen, toFen and isInCheck /
\* generateLegalMoves.
\* ------------------------------------------------------------------------
KINGS_ONLY_PLACEMENT ==
    <<"4", "k", "3", "/", "8", "/", "8", "/", "8", "/", "8", "/", "8", "/", "8", "/",
      "4", "K", "3">>
EMPTY_PLACEMENT ==
    <<"8", "/", "8", "/", "8", "/", "8", "/", "8", "/", "8", "/", "8", "/", "8">>
NO_WHITE_KING_PLACEMENT ==
    <<"4", "k", "3", "/", "8", "/", "8", "/", "8", "/", "8", "/", "8", "/", "4", "P", "3",
      "/", "8">>
NO_BLACK_KING_PLACEMENT ==
    <<"8", "/", "4", "p", "3", "/", "8", "/", "8", "/", "8", "/", "8", "/", "8", "/",
      "4", "K", "3">>
SPLIT_RUN_PLACEMENT ==
    <<"4", "k", "3", "/", "8", "/", "8", "/", "8", "/", "8", "/", "8", "/", "8", "/",
      "4", "K", "1", "2">>
LONG_RANK_PLACEMENT ==
    <<"4", "k", "3", "/", "8", "/", "8", "/", "8", "/", "8", "/", "8", "/", "8", "/",
      "4", "K", "4">>
UNKNOWN_LETTER_PLACEMENT ==
    <<"4", "k", "3", "/", "8", "/", "8", "/", "8", "/", "8", "/", "8", "/", "8", "/",
      "4", "X", "3">>
SEVEN_RANKS_PLACEMENT ==
    <<"4", "k", "3", "/", "8", "/", "8", "/", "8", "/", "8", "/", "8", "/", "4", "K", "3">>
ROOKS_HOME_PLACEMENT ==
    <<"r", "3", "k", "2", "r", "/", "8", "/", "8", "/", "8", "/", "4", "P", "3", "/",
      "8", "/", "8", "/", "R", "3", "K", "2", "R">>

FenPlacements ==
    {KINGS_ONLY_PLACEMENT, EMPTY_PLACEMENT, NO_WHITE_KING_PLACEMENT,
     NO_BLACK_KING_PLACEMENT, SPLIT_RUN_PLACEMENT, LONG_RANK_PLACEMENT,
     UNKNOWN_LETTER_PLACEMENT, SEVEN_RANKS_PLACEMENT, ROOKS_HOME_PLACEMENT}
FenSides == {<<"w">>, <<"b">>, <<"x">>}
FenCastlings == {<<"-">>, <<"K", "Q", "k", "q">>, <<"q", "K">>, <<"K", "q">>}
FenEnPassants == {<<"-">>, <<"e", "3">>, <<"e", "9">>}
FenHalfmoves == {<<"0">>, <<"2", "5">>, <<"0", "7">>, <<"x">>}
FenFullmoves == {<<"1">>, <<"5", "0">>, <<"0">>}

FenText(fields) == Join(fields, " ", Len(fields))

\* The texts given to parseFen: the six fields varied, texts of fewer fields
\* and texts with more white space than one space between the fields.
FenInputs ==
    {FenText(<<placement, <<"w">>, castling, <<"-">>, halfmove, <<"1">> >>) :
        placement \in FenPlacements, castling \in FenCastlings,
        halfmove \in FenHalfmoves}
    \cup {FenText(<<ROOKS_HOME_PLACEMENT, side, <<"K", "Q", "k", "q">>, enPassant,
                    <<"0">>, fullmove>>) :
            side \in FenSides, enPassant \in FenEnPassants, fullmove \in FenFullmoves}
    \cup {FenText(<<KINGS_ONLY_PLACEMENT, <<"w">>, <<"-">>, <<"-">> >>),
          FenText(<<KINGS_ONLY_PLACEMENT, <<"w">>, <<"-">>, <<"-">>, <<"3">> >>),
          FenText(<<KINGS_ONLY_PLACEMENT, <<"w">>, <<"-">> >>),
          <<" ">> \o FenText(<<KINGS_ONLY_PLACEMENT, <<"w">>, <<"-">>, <<"-">>,
                               <<"0">>, <<"1">> >>) \o <<" ">>,
          FenText(<<KINGS_ONLY_PLACEMENT, <<>>, <<"w">>, <<"-">>, <<"-">>,
                    <<"0">>, <<"1">> >>),
          <<>>}

\* The positions given to toFen: the positions the games start from, every
\* position one legal move later and a position late in a game.
MovesOf(moves) == {moves[i] : i \in 1..Len(moves)}

LegalSuccessors(given) ==
    {makeMove(given, move) : move \in MovesOf(generateLegalMoves(given))}

FenPositions ==
    {GamePosition(name) : name \in GamePositionNames}
    \cup UNION {LegalSuccessors(GamePosition(name)) : name \in GamePositionNames}
    \cup {[given EXCEPT !.halfmoveClock = 25, !.fullmoveNumber = 50] :
            given \in LegalSuccessors(KIWIPETE)}

NoPositionGiven == [board |-> <<>>]

FenRunOfText(fen) ==
    [stage |-> "given", origin |-> "text", fen |-> fen, start |-> NoPositionGiven,
     position |-> NoPositionGiven, emitted |-> <<>>,
     color |-> WHITE, inCheck |-> "none", legalMoves |-> "none"]

FenRunOfPosition(given) ==
    [stage |-> "given", origin |-> "position", fen |-> <<>>, start |-> given,
     position |-> given, emitted |-> <<>>,
     color |-> WHITE, inCheck |-> "none", legalMoves |-> "none"]

\* The text a run holds last.
FenRunText == IF fenRun.origin = "text" THEN fenRun.fen ELSE fenRun.emitted

FenParsed(run, parsed) ==
    IF parsed.ok
    THEN [run EXCEPT !.stage = "parsed", !.position = parsed.position]
    ELSE [run EXCEPT !.stage = "rejected"]

\* parseFen of the text the run holds: the text given, or the text toFen
\* made of the position given.
ParseFen ==
    /\ \/ fenRun.stage = "given" /\ fenRun.origin = "text"
       \/ fenRun.stage = "emitted" /\ fenRun.origin = "position"
    /\ fenRun' = FenParsed(fenRun, parseFen(FenRunText))
    /\ UNCHANGED <<game, position, ply, lastMove, lastRejected, perftRun, engine, call,
                   calls, earlier, toWorker, toMain, worker, wrapper, searches,
                   tableRun, killerRun, unitRun, controller>>

\* toFen of the position the run holds: the position given, or the position
\* parseFen made of the text given.
ToFen ==
    /\ \/ fenRun.stage = "given" /\ fenRun.origin = "position"
       \/ fenRun.stage = "parsed" /\ fenRun.origin = "text"
    /\ fenRun' = [fenRun EXCEPT !.stage = "emitted", !.emitted = toFen(fenRun.position)]
    /\ UNCHANGED <<game, position, ply, lastMove, lastRejected, perftRun, engine, call,
                   calls, earlier, toWorker, toMain, worker, wrapper, searches,
                   tableRun, killerRun, unitRun, controller>>

\* findKing throws when the board holds no king of the colour, and isInCheck
\* calls it first.
isInCheckThrows(board, color) == findKing(board, color) = NoSquare

IsInCheckOutcome(board, color) ==
    IF isInCheckThrows(board, color) THEN "threw"
    ELSE IF isInCheck(board, color) THEN "check"
    ELSE "safe"

\* isMoveLegal calls isInCheck for the side to move on the board after
\* each pseudo-legal move.
generateLegalMovesThrows(given) ==
    \E move \in MovesOf(generatePseudoLegalMoves(given)) :
        isInCheckThrows(makeMoveBoard(given.board, move), given.sideToMove)

\* isInCheck for a colour and generateLegalMoves for that colour to move, on
\* the board parseFen returned.
DetectCheck(color) ==
    /\ fenRun.stage = "parsed" /\ fenRun.origin = "text"
    /\ fenRun' = [fenRun EXCEPT
           !.stage = "checked",
           !.color = color,
           !.inCheck = IsInCheckOutcome(fenRun.position.board, color),
           !.legalMoves =
               IF generateLegalMovesThrows([fenRun.position EXCEPT !.sideToMove = color])
               THEN "threw" ELSE "returned"]
    /\ UNCHANGED <<game, position, ply, lastMove, lastRejected, perftRun, engine, call,
                   calls, earlier, toWorker, toMain, worker, wrapper, searches,
                   tableRun, killerRun, unitRun, controller>>

InitFen ==
    /\ game = "start"
    /\ position = createStartingPosition
    /\ ply = 0
    /\ lastMove = NoMove
    /\ lastRejected = 0
    /\ perftRun = NoPerft
    /\ engine = NewEngine
    /\ call = NoCall
    /\ calls = 0
    /\ earlier = {}
    /\ WorkerStarted
    /\ tableRun = NoTableRun
    /\ killerRun = NoKillerRun
    /\ unitRun = NoUnitRun
    /\ controller = NoController
    /\ fenRun \in {FenRunOfText(fen) : fen \in FenInputs}
                  \cup {FenRunOfPosition(given) : given \in FenPositions}

NextFen ==
    \/ ParseFen
    \/ ToFen
    \/ \E color \in {WHITE, BLACK} : DetectCheck(color)

FenSpec == InitFen /\ [][NextFen]_vars

\* Of a well-formed position, what the conversions can see: one king of
\* each colour and clocks in range.
WellFormed(given) ==
    /\ Cardinality(KingsOf(given.board, WHITE)) = 1
    /\ Cardinality(KingsOf(given.board, BLACK)) = 1
    /\ given.halfmoveClock >= 0
    /\ given.fullmoveNumber >= 1

SamePosition(a, b) ==
    /\ a.board = b.board
    /\ a.sideToMove = b.sideToMove
    /\ a.castlingRights = b.castlingRights
    /\ a.enPassantSquare = b.enPassantSquare
    /\ a.halfmoveClock = b.halfmoveClock
    /\ a.fullmoveNumber = b.fullmoveNumber

\* C14: for every well-formed position P, parseFen(toFen(P)) is accepted and
\* equals P in board, side to move, castling rights, en-passant square,
\* halfmove clock and fullmove number.
C14_ParseOfEmittedIsPosition ==
    (fenRun.origin = "position" /\ WellFormed(fenRun.start)) =>
        /\ fenRun.stage # "rejected"
        /\ fenRun.stage = "parsed" => SamePosition(fenRun.position, fenRun.start)

\* A position with an en-passant square and clocks of two digits has been
\* emitted and parsed back.
C14_Witness ==
    /\ fenRun.origin = "position"
    /\ fenRun.stage = "parsed"
    /\ WellFormed(fenRun.start)
    /\ fenRun.start.enPassantSquare # NoSquare
    /\ fenRun.start.halfmoveClock = 25
    /\ fenRun.start.fullmoveNumber = 50

\* C15: for every text that parseFen accepts and that carries all six
\* fields, toFen of the position parsed is exactly the text.
C15_EmittedOfParsedIsText ==
    (/\ fenRun.origin = "text"
     /\ fenRun.stage = "emitted"
     /\ Len(SplitWhitespace(fenRun.fen)) = 6) =>
        fenRun.emitted = fenRun.fen

HasBothKings(board) == KingsOf(board, WHITE) # {} /\ KingsOf(board, BLACK) # {}

\* C16: parseFen fails on every text whose piece placement lacks a white
\* king or lacks a black king: it never returns a position without both
\* kings.
C16_MissingKingRejected ==
    (fenRun.origin = "text" /\ fenRun.stage = "parsed") =>
        HasBothKings(fenRun.position.board)

\* C17: on a board that lacks the king of the queried colour, isInCheck and
\* generateLegalMoves return a value and do not throw.
C17_CheckDetectionReturns ==
    (/\ fenRun.stage = "checked"
     /\ KingsOf(fenRun.position.board, fenRun.color) = {}) =>
        /\ fenRun.inCheck # "threw"
        /\ fenRun.legalMoves # "threw"

\* ------------------------------------------------------------------------
\* A transposition table of its own, one run at a time: the constructor for
\* a size given as a fraction of a megabyte, then store and clear.
\* ------------------------------------------------------------------------
MaxStores == 3

\* The capacity the constructor computes for a size of
\* numerator / denominator megabytes.
TTMaxSizeOfFraction(numerator, denominator) ==
    (numerator * 1024 * 1024) \div (100 * denominator)

\* Sizes of 0.0002 MB and 0.001 MB: capacities of 2 and of 10 entries.
TableSizes == {<<2, 10000>>, <<10, 10000>>}
TableHashes == {1, 11, 12}
TableDepths == {0, 1, 2}
TableEvaluations == {0, 50}

\* store has left the entry of the key alone and counted a collision.
TTStoreCollides(table, hash, depth) ==
    TTIndex(table, hash) # 0 /\ table[TTIndex(table, hash)].depth > depth

TTEntry(hash, depth, evaluation) ==
    [hash |-> hash, depth |-> depth, evaluation |-> evaluation,
     nodeType |-> "exact", bestMove |-> NoMove]

\* The table after stores of the keys 1..n at depth 1, in this order.
RECURSIVE TableFilled(_, _)
TableFilled(maxSize, n) ==
    IF n = 0 THEN EmptyTable
    ELSE TTStoreIn(TableFilled(maxSize, n - 1), maxSize, n, 1, 0, "exact", NoMove)

NoStore == [hash |-> 0]

NewTable(maxSize, table) ==
    [maxSize |-> maxSize, table |-> table, collisions |-> 0, stores |-> 0,
     last |-> NoStore]

\* TranspositionTable.store
StoreEntry(hash, depth, evaluation) ==
    /\ tableRun # NoTableRun
    /\ tableRun.stores < MaxStores
    /\ tableRun' = [tableRun EXCEPT
           !.table = TTStoreIn(tableRun.table, tableRun.maxSize, hash, depth,
                               evaluation, "exact", NoMove),
           !.collisions = IF TTStoreCollides(tableRun.table, hash, depth)
                          THEN tableRun.collisions + 1 ELSE tableRun.collisions,
           !.stores = tableRun.stores + 1,
           !.last = [hash |-> hash, depth |-> depth, evaluation |-> evaluation,
                     before |-> tableRun.table,
                     collisionsBefore |-> tableRun.collisions]]
    /\ UNCHANGED <<game, position, ply, lastMove, lastRejected, perftRun, engine, call,
                   calls, earlier, toWorker, toMain, worker, wrapper, searches,
                   fenRun, killerRun, unitRun, controller>>

\* TranspositionTable.clear
ClearTable ==
    /\ tableRun # NoTableRun
    /\ tableRun.stores < MaxStores
    /\ tableRun.table # EmptyTable
    /\ tableRun' = [tableRun EXCEPT
           !.table = EmptyTable,
           !.collisions = 0,
           !.stores = tableRun.stores + 1,
           !.last = NoStore]
    /\ UNCHANGED <<game, position, ply, lastMove, lastRejected, perftRun, engine, call,
                   calls, earlier, toWorker, toMain, worker, wrapper, searches,
                   fenRun, killerRun, unitRun, controller>>

\* A table just made, or a table filled to its capacity by earlier stores.
InitTable ==
    /\ game = "start"
    /\ position = createStartingPosition
    /\ ply = 0
    /\ lastMove = NoMove
    /\ lastRejected = 0
    /\ perftRun = NoPerft
    /\ engine = NewEngine
    /\ call = NoCall
    /\ calls = 0
    /\ earlier = {}
    /\ WorkerStarted
    /\ fenRun = NoFenRun
    /\ killerRun = NoKillerRun
    /\ unitRun = NoUnitRun
    /\ controller = NoController
    /\ \E size \in TableSizes :
        tableRun \in {NewTable(TTMaxSizeOfFraction(size[1], size[2]), EmptyTable),
                      NewTable(TTMaxSizeOfFraction(size[1], size[2]),
                               TableFilled(TTMaxSizeOfFraction(size[1], size[2]),
                                           TTMaxSizeOfFraction(size[1], size[2])))}

NextTable ==
    \/ \E hash \in TableHashes, depth \in TableDepths, evaluation \in TableEvaluations :
        StoreEntry(hash, depth, evaluation)
    \/ ClearTable

TableSpec == InitTable /\ [][NextTable]_vars

\* What store does for a key that already has an entry.
ReplacementRule ==
    (/\ tableRun # NoTableRun
     /\ tableRun.last # NoStore
     /\ TTIndex(tableRun.last.before, tableRun.last.hash) # 0) =>
        IF TTProbe(tableRun.last.before, tableRun.last.hash).depth > tableRun.last.depth
        THEN /\ tableRun.table = tableRun.last.before
             /\ tableRun.collisions = tableRun.last.collisionsBefore + 1
        ELSE /\ TTProbe(tableRun.table, tableRun.last.hash) =
                    TTEntry(tableRun.last.hash, tableRun.last.depth,
                            tableRun.last.evaluation)
             /\ tableRun.collisions = tableRun.last.collisionsBefore

\* A key that has an entry before and after a step has not lost depth.
DepthKept ==
    (tableRun # NoTableRun /\ tableRun' # NoTableRun) =>
        \A hash \in TableHashes \cup 1..10 :
            (TTIndex(tableRun.table, hash) # 0 /\ TTIndex(tableRun'.table, hash) # 0) =>
                TTProbe(tableRun'.table, hash).depth >= TTProbe(tableRun.table, hash).depth

\* C18: a store for a key that already has an entry leaves the entry
\* unchanged and counts a collision when the entry is strictly deeper than
\* the incoming depth, and overwrites the entry otherwise; hence the depth
\* stored for a key never decreases while the key stays in the table.
C18_ReplacementKeepsDeeper == [](ReplacementRule) /\ [][DepthKept]_vars

\* Both cases have happened: a store of lesser depth has been counted as a
\* collision after a store of equal depth has overwritten an entry.
C18_Witness ==
    /\ tableRun # NoTableRun
    /\ tableRun.last # NoStore
    /\ TTStoreCollides(tableRun.last.before, tableRun.last.hash, tableRun.last.depth)
    /\ tableRun.collisions = 1
    /\ tableRun.stores = MaxStores
    /\ TTProbe(tableRun.table, tableRun.last.hash).evaluation = 50
    /\ TTProbe(tableRun.table, tableRun.last.hash).depth = 1

\* C19: for every capacity of at least one entry, the number of entries
\* never exceeds the capacity, after any sequence of stores.
C19_EntriesWithinCapacity ==
    (tableRun # NoTableRun /\ tableRun.maxSize >= 1) =>
        Len(tableRun.table) <= tableRun.maxSize

\* ------------------------------------------------------------------------
\* A killer table of its own, one run at a time: add and clear.
\* ------------------------------------------------------------------------
MaxKillerAdds == 3

\* The first ply, the last ply of the table and the first ply beyond it.
KillerPlies == {0, KILLER_MAX_PLY - 1, KILLER_MAX_PLY}

\* Three quiet moves, a capture, a promotion to a queen and to a knight on
\* the same squares, and the first quiet move made by another piece.
KillerInputs ==
    {Move(12, 28, makePiece(PAWN, WHITE), NORMAL, NoPiece, NoPiece),
     Move(6, 21, makePiece(KNIGHT, WHITE), NORMAL, NoPiece, NoPiece),
     Move(5, 26, makePiece(BISHOP, WHITE), NORMAL, NoPiece, NoPiece),
     Move(12, 28, makePiece(ROOK, WHITE), NORMAL, NoPiece, NoPiece),
     Move(28, 35, makePiece(PAWN, WHITE), CAPTURE, makePiece(PAWN, BLACK), NoPiece),
     Move(48, 56, makePiece(PAWN, WHITE), PROMOTION, NoPiece, QUEEN),
     Move(48, 56, makePiece(PAWN, WHITE), PROMOTION, NoPiece, KNIGHT)}

NoAdd == [ply |-> -1]

\* KillerMoves.add
AddKiller(atPly, move) ==
    /\ killerRun # NoKillerRun
    /\ killerRun.adds < MaxKillerAdds
    /\ killerRun' = [killerRun EXCEPT
           !.killers = KillersAdd(killerRun.killers, atPly, move),
           !.adds = killerRun.adds + 1,
           !.last = [ply |-> atPly, move |-> move, before |-> killerRun.killers]]
    /\ UNCHANGED <<game, position, ply, lastMove, lastRejected, perftRun, engine, call,
                   calls, earlier, toWorker, toMain, worker, wrapper, searches,
                   fenRun, tableRun, unitRun, controller>>

\* KillerMoves.clear
ClearKillers ==
    /\ killerRun # NoKillerRun
    /\ killerRun.adds < MaxKillerAdds
    /\ killerRun.killers # NoKillers
    /\ killerRun' = [killerRun EXCEPT
           !.killers = NoKillers,
           !.adds = killerRun.adds + 1,
           !.last = NoAdd]
    /\ UNCHANGED <<game, position, ply, lastMove, lastRejected, perftRun, engine, call,
                   calls, earlier, toWorker, toMain, worker, wrapper, searches,
                   fenRun, tableRun, unitRun, controller>>

InitKiller ==
    /\ game = "start"
    /\ position = createStartingPosition
    /\ ply = 0
    /\ lastMove = NoMove
    /\ lastRejected = 0
    /\ perftRun = NoPerft
    /\ engine = NewEngine
    /\ call = NoCall
    /\ calls = 0
    /\ earlier = {}
    /\ WorkerStarted
    /\ fenRun = NoFenRun
    /\ tableRun = NoTableRun
    /\ unitRun = NoUnitRun
    /\ controller = NoController
    /\ killerRun = [killers |-> NoKillers, adds |-> 0, last |-> NoAdd]

NextKiller ==
    \/ \E atPly \in KillerPlies, move \in KillerInputs : AddKiller(atPly, move)
    \/ ClearKillers

KillerSpec == InitKiller /\ [][NextKiller]_vars

\* The list of a ply holds at most two moves, pairwise distinct, none of
\* them a capture.
KillerListSound(killers) ==
    /\ Len(killers) <= 2
    /\ \A i, j \in 1..Len(killers) : i # j => ~movesEqual(killers[i], killers[j])
    /\ \A i \in 1..Len(killers) : killers[i].captured = NoPiece

IsKiller(killers, move) == \E i \in 1..Len(killers) : movesEqual(killers[i], move)

\* What the last add did to the list of its ply: nothing when the move was
\* there already, and otherwise the move is in front and the move that was
\* in front comes second.
LastAddInFront ==
    (killerRun.last # NoAdd /\ killerRun.last.ply < KILLER_MAX_PLY) =>
        IF IsKiller(killerRun.last.before[killerRun.last.ply], killerRun.last.move)
        THEN killerRun.killers = killerRun.last.before
        ELSE killerRun.last.move.captured = NoPiece =>
                /\ killerRun.killers[killerRun.last.ply][1] = killerRun.last.move
                /\ killerRun.last.before[killerRun.last.ply] # <<>> =>
                       killerRun.killers[killerRun.last.ply][2] =
                           killerRun.last.before[killerRun.last.ply][1]

\* C20: after any sequence of adds every ply below 64 holds at most 2 moves,
\* pairwise distinct and none a capture, with the move inserted last in
\* front; an add of a move that the ply holds already leaves the list
\* unchanged.
C20_KillerListsSound ==
    killerRun # NoKillerRun =>
        /\ \A atPly \in 0..(KILLER_MAX_PLY - 1) : KillerListSound(killerRun.killers[atPly])
        /\ LastAddInFront

\* A third quiet move has been added to a ply that held two: it is in front
\* and the oldest move is gone.
C20_Witness ==
    /\ killerRun # NoKillerRun
    /\ killerRun.last # NoAdd
    /\ killerRun.last.ply = KILLER_MAX_PLY - 1
    /\ Len(killerRun.last.before[killerRun.last.ply]) = 2
    /\ ~IsKiller(killerRun.last.before[killerRun.last.ply], killerRun.last.move)
    /\ killerRun.last.move.captured = NoPiece
    /\ Len(killerRun.killers[killerRun.last.ply]) = 2
    /\ killerRun.killers[killerRun.last.ply][1] = killerRun.last.move

\* ------------------------------------------------------------------------
\* A history table of its own, one run at a time: addCutoff for quiet moves
\* at a depth, then scoreMove of a quiet move with no hash move and no
\* killer.
\* ------------------------------------------------------------------------
MaxCutoffs == 3

\* The depths of the cutoffs: the least, the maximum depth of the Expert
\* level and a depth findBestMove may be called with.
HistoryDepths == {1, 6, 280}

HistoryMoves ==
    {Move(12, 28, makePiece(PAWN, WHITE), NORMAL, NoPiece, NoPiece),
     Move(6, 21, makePiece(KNIGHT, WHITE), NORMAL, NoPiece, NoPiece),
     Move(57, 42, makePiece(KNIGHT, BLACK), NORMAL, NoPiece, NoPiece)}

\* HistoryTable.addCutoff
AddCutoff(move, depth) ==
    /\ unitRun.unit = "history"
    /\ ~unitRun.scored
    /\ unitRun.cutoffs < MaxCutoffs
    /\ unitRun' = [unitRun EXCEPT
           !.history = HistoryAddCutoff(unitRun.history, move, depth),
           !.cutoffs = unitRun.cutoffs + 1]
    /\ UNCHANGED <<game, position, ply, lastMove, lastRejected, perftRun, engine, call,
                   calls, earlier, toWorker, toMain, worker, wrapper, searches,
                   fenRun, tableRun, killerRun, controller>>

\* scoreMove of a quiet move, with no hash move and an empty killer table
ScoreQuietMove(move) ==
    /\ unitRun.unit = "history"
    /\ ~unitRun.scored
    /\ unitRun' = [unitRun EXCEPT
           !.move = move,
           !.scored = TRUE,
           !.score = scoreMove(move, NoMove, NoKillers, unitRun.history, 0)]
    /\ UNCHANGED <<game, position, ply, lastMove, lastRejected, perftRun, engine, call,
                   calls, earlier, toWorker, toMain, worker, wrapper, searches,
                   fenRun, tableRun, killerRun, controller>>

InitHistory ==
    /\ game = "start"
    /\ position = createStartingPosition
    /\ ply = 0
    /\ lastMove = NoMove
    /\ lastRejected = 0
    /\ perftRun = NoPerft
    /\ engine = NewEngine
    /\ call = NoCall
    /\ calls = 0
    /\ earlier = {}
    /\ WorkerStarted
    /\ fenRun = NoFenRun
    /\ tableRun = NoTableRun
    /\ killerRun = NoKillerRun
    /\ controller = NoController
    /\ unitRun = [unit |-> "history", history |-> NoHistory, cutoffs |-> 0,
                  move |-> NoMove, scored |-> FALSE, score |-> 0]

NextHistory ==
    \/ \E move \in HistoryMoves, depth \in HistoryDepths : AddCutoff(move, depth)
    \/ \E move \in HistoryMoves : ScoreQuietMove(move)

HistorySpec == InitHistory /\ [][NextHistory]_vars

\* C21: whatever cutoffs the history table has recorded, at any depth, the
\* ordering score of a quiet move that is neither the hash move, a killer
\* nor a promotion lies in [0, 38999], below the score of a killer move.
C21_HistoryScoreBelowKillers ==
    (unitRun.unit = "history" /\ unitRun.scored) =>
        /\ unitRun.score >= 0
        /\ unitRun.score <= SCORE_KILLER_2 - 1

\* ------------------------------------------------------------------------
\* evaluate on a position and on its mirror image, one run at a time.
\* ------------------------------------------------------------------------
\* The colours of all pieces swapped, the board mirrored top to bottom, the
\* side to move swapped, and the castling rights and the en-passant square
\* carried along.
MirrorPiece(piece) ==
    IF piece = NoPiece THEN NoPiece
    ELSE makePiece(pieceType(piece), oppositeColor(pieceColor(piece)))

MirrorSquare(square) == toSquareIndex(getFile(square), 7 - getRank(square))

MirrorPosition(given) ==
    Position([square \in 0..63 |-> MirrorPiece(given.board[MirrorSquare(square)])],
             oppositeColor(given.sideToMove),
             CastlingRights(given.castlingRights.blackKingside,
                            given.castlingRights.blackQueenside,
                            given.castlingRights.whiteKingside,
                            given.castlingRights.whiteQueenside),
             IF given.enPassantSquare = NoSquare THEN NoSquare
             ELSE MirrorSquare(given.enPassantSquare),
             given.halfmoveClock, given.fullmoveNumber)

\* The positions evaluated: the positions the games start from and every
\* position one legal move later.
EvaluatedPositions ==
    {GamePosition(name) : name \in GamePositionNames}
    \cup UNION {LegalSuccessors(GamePosition(name)) : name \in GamePositionNames}
    \cup {MATE_IN_ONE, PAWN_TENSION, ONE_LEGAL_MOVE}
    \cup LegalSuccessors(MATE_IN_ONE) \cup LegalSuccessors(PAWN_TENSION)

\* evaluate of the position and of its mirror image
EvaluateBoth ==
    /\ unitRun.unit = "evaluate"
    /\ ~unitRun.evaluated
    /\ unitRun' = [unitRun EXCEPT
           !.evaluated = TRUE,
           !.score = evaluate(unitRun.given),
           !.mirrored = evaluate(MirrorPosition(unitRun.given))]
    /\ UNCHANGED <<game, position, ply, lastMove, lastRejected, perftRun, engine, call,
                   calls, earlier, toWorker, toMain, worker, wrapper, searches,
                   fenRun, tableRun, killerRun, controller>>

InitEvaluate ==
    /\ game = "start"
    /\ position = createStartingPosition
    /\ ply = 0
    /\ lastMove = NoMove
    /\ lastRejected = 0
    /\ perftRun = NoPerft
    /\ engine = NewEngine
    /\ call = NoCall
    /\ calls = 0
    /\ earlier = {}
    /\ WorkerStarted
    /\ fenRun = NoFenRun
    /\ tableRun = NoTableRun
    /\ killerRun = NoKillerRun
    /\ controller = NoController
    /\ unitRun \in {[unit |-> "evaluate", given |-> given, evaluated |-> FALSE,
                     score |-> 0, mirrored |-> 0] : given \in EvaluatedPositions}

NextEvaluate == EvaluateBoth

EvaluateSpec == InitEvaluate /\ [][NextEvaluate]_vars

\* C22: the evaluation of the mirror image of a position (colours swapped,
\* board mirrored top to bottom, side to move swapped) is the negated
\* evaluation of the position, to within 1 centipawn.
C22_EvaluationSymmetric ==
    (unitRun.unit = "evaluate" /\ unitRun.evaluated) =>
        /\ unitRun.mirrored + unitRun.score <= 1
        /\ unitRun.mirrored + unitRun.score >= -1

\* A position that is not balanced has been evaluated with its mirror
\* image.
C22_Witness ==
    /\ unitRun.unit = "evaluate"
    /\ unitRun.evaluated
    /\ unitRun.score > 100
    /\ unitRun.given.sideToMove = BLACK

\* ------------------------------------------------------------------------
\* orderMoves on the legal moves of a position, one run at a time, for a
\* choice of hash move, killer moves and history.
\* ------------------------------------------------------------------------
\* 4k3/P7/8/3q4/3Q1n2/4P3/8/4K3 w - - 0 1: White has a capture of a knight by
\* a pawn, of a queen by the queen, of a knight by the queen, a promotion
\* and quiet moves.
CAPTURES_OF_ALL_KINDS ==
    Position(parsePiecePlacement(
        << <<"4", "k", "3">>,
           <<"P", "7">>,
           <<"8">>,
           <<"3", "q", "4">>,
           <<"3", "Q", "1", "n", "2">>,
           <<"4", "P", "3">>,
           <<"8">>,
           <<"4", "K", "3">> >>).board,
        WHITE, CastlingRights(FALSE, FALSE, FALSE, FALSE), NoSquare, 0, 1)

OrderedMoves == generateLegalMoves(CAPTURES_OF_ALL_KINDS)

\* The quiet moves Ke1-d1 and Qd4-c3, as killers of ply 0.
FirstKiller == Move(4, 3, makePiece(KING, WHITE), NORMAL, NoPiece, NoPiece)
SecondKiller == Move(27, 18, makePiece(QUEEN, WHITE), NORMAL, NoPiece, NoPiece)

OrderKillers ==
    {NoKillers,
     KillersAdd(NoKillers, 0, FirstKiller),
     KillersAdd(KillersAdd(NoKillers, 0, FirstKiller), 0, SecondKiller)}

\* No cutoff yet, or a cutoff by Qd4-e4 at depth 3.
OrderHistories ==
    {NoHistory,
     HistoryAddCutoff(NoHistory,
         Move(27, 28, makePiece(QUEEN, WHITE), NORMAL, NoPiece, NoPiece), 3)}

\* orderMoves
OrderMoves ==
    /\ unitRun.unit = "order"
    /\ ~unitRun.done
    /\ unitRun' = [unitRun EXCEPT
           !.done = TRUE,
           !.moves = MapToArray(orderMoves(unitRun.moves, unitRun.hashMove,
                                           unitRun.killers, unitRun.history, 0))]
    /\ UNCHANGED <<game, position, ply, lastMove, lastRejected, perftRun, engine, call,
                   calls, earlier, toWorker, toMain, worker, wrapper, searches,
                   fenRun, tableRun, killerRun, controller>>

InitOrder ==
    /\ game = "start"
    /\ position = createStartingPosition
    /\ ply = 0
    /\ lastMove = NoMove
    /\ lastRejected = 0
    /\ perftRun = NoPerft
    /\ engine = NewEngine
    /\ call = NoCall
    /\ calls = 0
    /\ earlier = {}
    /\ WorkerStarted
    /\ fenRun = NoFenRun
    /\ tableRun = NoTableRun
    /\ killerRun = NoKillerRun
    /\ controller = NoController
    /\ unitRun \in {[unit |-> "order", done |-> FALSE, moves |-> OrderedMoves,
                     hashMove |-> hashMove, killers |-> killers, history |-> history] :
                        hashMove \in MovesOf(OrderedMoves) \cup {NoMove},
                        killers \in OrderKillers, history \in OrderHistories}

NextOrder == OrderMoves

OrderSpec == InitOrder /\ [][NextOrder]_vars

\* The place of a move in the order of priorities: the hash move, a
\* capture, a killer, any other move.
OrderPriority(move, hashMove, killers) ==
    IF hashMove # NoMove /\ move.from = hashMove.from /\ move.to = hashMove.to THEN 1
    ELSE IF move.captured # NoPiece THEN 2
    ELSE IF \E i \in 1..Len(killers) :
                move.from = killers[i].from /\ move.to = killers[i].to THEN 3
    ELSE 4

InPriorityOrder(first, second, hashMove, killers, history) ==
    /\ OrderPriority(first, hashMove, killers) <= OrderPriority(second, hashMove, killers)
    /\ (OrderPriority(first, hashMove, killers) = 2
        /\ OrderPriority(second, hashMove, killers) = 2) =>
            getMvvLvaScore(first) >= getMvvLvaScore(second)
    /\ (OrderPriority(first, hashMove, killers) = 4
        /\ OrderPriority(second, hashMove, killers) = 4) =>
            HistoryGetScore(history, first) >= HistoryGetScore(history, second)

\* C23: orderMoves puts the hash move first, then every capture by MVV-LVA,
\* then the killer moves, then the remaining quiet moves by history score.
C23_OrderedByPriority ==
    (unitRun.unit = "order" /\ unitRun.done) =>
        \A i, j \in 1..Len(unitRun.moves) :
            i < j => InPriorityOrder(unitRun.moves[i], unitRun.moves[j], unitRun.hashMove,
                                     KillersGet(unitRun.killers, 0), unitRun.history)

\* ------------------------------------------------------------------------
\* The Zobrist hash kept up to date by updateHashForMove and computed afresh
\* by computeHash, one run at a time.  A hash is the set of the keys XORed
\* into it: the keys are 64-bit numbers drawn at random, none the XOR of
\* others.
\* ------------------------------------------------------------------------
Xor(hash, key) == (hash \ key) \cup (key \ hash)

getPieceIndex(piece) == piece - 1

PieceSquareKey(square, pieceIdx) == {<<"pieceSquare", square, pieceIdx>>}
BlackToMoveKey == {<<"blackToMove", 0, 0>>}
CastlingKey(index) == {<<"castling", index, 0>>}
EnPassantKey(file) == {<<"enPassant", file, 0>>}

XorIf(hash, condition, key) == IF condition THEN Xor(hash, key) ELSE hash

\* computeHash, as the keys it XORs
computeHashKeys(given) ==
    XorIf(XorIf(XorIf(XorIf(XorIf(XorIf(
        UNION {PieceSquareKey(square, getPieceIndex(given.board[square])) :
                  square \in {sq \in 0..63 : given.board[sq] # NoPiece}},
        given.sideToMove = BLACK, BlackToMoveKey),
        given.castlingRights.whiteKingside, CastlingKey(0)),
        given.castlingRights.whiteQueenside, CastlingKey(1)),
        given.castlingRights.blackKingside, CastlingKey(2)),
        given.castlingRights.blackQueenside, CastlingKey(3)),
        given.enPassantSquare # NoSquare, EnPassantKey(JsRem(given.enPassantSquare, 8)))

updateHashForMove(hash, fromSquare, toSquare, piece, captured, oldEnPassant, newEnPassant, oldCastling, newCastling) ==
    XorIf(XorIf(XorIf(XorIf(XorIf(XorIf(
        Xor(XorIf(Xor(Xor(hash,
                PieceSquareKey(fromSquare, getPieceIndex(piece))),
                PieceSquareKey(toSquare, getPieceIndex(piece))),
            captured # NoPiece, PieceSquareKey(toSquare, getPieceIndex(captured))),
            BlackToMoveKey),
        oldEnPassant # NoSquare, EnPassantKey(JsRem(oldEnPassant, 8))),
        newEnPassant # NoSquare, EnPassantKey(JsRem(newEnPassant, 8))),
        oldCastling.whiteKingside # newCastling.whiteKingside, CastlingKey(0)),
        oldCastling.whiteQueenside # newCastling.whiteQueenside, CastlingKey(1)),
        oldCastling.blackKingside # newCastling.blackKingside, CastlingKey(2)),
        oldCastling.blackQueenside # newCastling.blackQueenside, CastlingKey(3))

\* The hash of the position after the move, by updateHashForMove from the
\* hash of the position before it and by computeHash.
HashMove ==
    /\ unitRun.unit = "hash"
    /\ ~unitRun.done
    /\ unitRun' = [unitRun EXCEPT
           !.done = TRUE,
           !.updated =
               updateHashForMove(computeHashKeys(unitRun.given),
                   unitRun.move.from, unitRun.move.to, unitRun.move.piece,
                   unitRun.move.captured,
                   unitRun.given.enPassantSquare,
                   makeMove(unitRun.given, unitRun.move).enPassantSquare,
                   unitRun.given.castlingRights,
                   makeMove(unitRun.given, unitRun.move).castlingRights),
           !.computed = computeHashKeys(makeMove(unitRun.given, unitRun.move))]
    /\ UNCHANGED <<game, position, ply, lastMove, lastRejected, perftRun, engine, call,
                   calls, earlier, toWorker, toMain, worker, wrapper, searches,
                   fenRun, tableRun, killerRun, controller>>

HashedPositions ==
    {GamePosition(name) : name \in GamePositionNames} \cup LegalSuccessors(KIWIPETE)

InitHash ==
    /\ game = "start"
    /\ position = createStartingPosition
    /\ ply = 0
    /\ lastMove = NoMove
    /\ lastRejected = 0
    /\ perftRun = NoPerft
    /\ engine = NewEngine
    /\ call = NoCall
    /\ calls = 0
    /\ earlier = {}
    /\ WorkerStarted
    /\ fenRun = NoFenRun
    /\ tableRun = NoTableRun
    /\ killerRun = NoKillerRun
    /\ controller = NoController
    /\ \E given \in HashedPositions :
        unitRun \in {[unit |-> "hash", given |-> given, move |-> move, done |-> FALSE,
                      updated |-> {}, computed |-> {}] :
                        move \in MovesOf(generateLegalMoves(given))}

NextHash == HashMove

HashSpec == InitHash /\ [][NextHash]_vars

\* C24: for every position and every legal move, castling, en-passant
\* capture and promotion included, updateHashForMove applied to the hash of
\* the position gives the hash computeHash gives for the position after the
\* move.
C24_UpdatedHashIsComputedHash ==
    (unitRun.unit = "hash" /\ unitRun.done) => unitRun.updated = unitRun.computed

\* ------------------------------------------------------------------------
\* The engine worker under fair scheduling: the worker takes every message
\* posted to it, the main thread takes every message posted back, a handler
\* that started returns, and a timeout that is set and never cleared fires.
\* The callers of search() and stop() are under no obligation.
\* ------------------------------------------------------------------------

\* handleSearch can take a step: the worker is between handlers and the
\* message at the head of its queue is 'search'.
SearchWaits ==
    worker.searching = 0 /\ toWorker # <<>> /\ Head(toWorker).type = "search"

\* Weak fairness of each handler. For handleSearch it is written out as
\* []<>~ENABLED \/ []<><<step>>: handleSearch is enabled exactly when
\* SearchWaits holds, and of the steps of NextWorker its steps are the ones
\* that take a 'search' message from the queue.
WorkerFairness ==
    /\ WF_vars(WrapperHandleMessage)
    /\ WF_vars(handleSetPosition)
    /\ WF_vars(handleStop)
    /\ ([]<>(~SearchWaits) \/ []<><<WorkerReceives("search")>>_vars)
    /\ WF_vars(SearchReturns)
    /\ \A id \in 1..MaxRequests : WF_vars(SearchTimeout(id))

WorkerLiveSpec == WorkerSpec /\ WorkerFairness

\* The promise search() returned for request id has been resolved or
\* rejected.
Settled(id) == id <= Len(searches) /\ searches[id].promise # "pending"

\* C29: every promise returned by EngineWorker.search is eventually resolved
\* or rejected, also when stop() is called or a second search() is started
\* while it is pending.
C29_EverySearchSettles ==
    \A id \in 1..MaxRequests : (id <= Len(searches)) ~> Settled(id)

\* ------------------------------------------------------------------------
\* The game controller (game/GameController): the state it keeps and the
\* updates its operations make. Of GameControllerState the fields that only
\* the display reads (difficulty, playStyle, lastSearchResult, selectedSquare,
\* legalMovesForSelected, the notation of a history entry) are left out.
\* history is the array of the code, so the entry the code calls history[i]
\* is history[i + 1] here.
\* ------------------------------------------------------------------------

PASS_AND_PLAY == "passAndPlay"
VS_COMPUTER == "vsComputer"

ONGOING == "ongoing"
WHITE_WINS_CHECKMATE == "whiteWinsCheckmate"
BLACK_WINS_CHECKMATE == "blackWinsCheckmate"
DRAW_STALEMATE == "drawStalemate"
DRAW_INSUFFICIENT_MATERIAL == "drawInsufficientMaterial"
DRAW_FIFTY_MOVES == "drawFiftyMoves"
DRAW_AGREEMENT == "drawAgreement"
WHITE_RESIGNS == "whiteResigns"
BLACK_RESIGNS == "blackResigns"

\* validateFen: parseFen returns and the board holds one king of each colour
validateFen(fen) ==
    LET parsed == parseFen(fen)
    IN  /\ parsed.ok
        /\ Cardinality(KingsOf(parsed.position.board, WHITE)) = 1
        /\ Cardinality(KingsOf(parsed.position.board, BLACK)) = 1

parseFenSafe(fen) ==
    IF validateFen(fen) THEN parseFen(fen).position ELSE createStartingPosition

HistoryEntry(given, move) == [position |-> given, move |-> move]

\* The state newGame sets for a position, a mode and the colour of the player
NewGameState(given, mode, playerColor) ==
    LET legalMoves == generateLegalMoves(given)
        isCheck == isInCheck(given.board, given.sideToMove)
    IN  [position |-> given,
         gameMode |-> mode,
         gameResult |-> ONGOING,
         history |-> <<HistoryEntry(given, NoMove)>>,
         currentHistoryIndex |-> 0,
         playerColor |-> playerColor,
         isThinking |-> FALSE,
         lastMove |-> NoMove,
         isCheck |-> isCheck,
         isCheckmate |-> Len(legalMoves) = 0 /\ isCheck,
         isStalemate |-> Len(legalMoves) = 0 /\ ~isCheck,
         isDraw |-> FALSE]

createInitialState ==
    LET given == createStartingPosition
        legalMoves == generateLegalMoves(given)
    IN  [position |-> given,
         gameMode |-> PASS_AND_PLAY,
         gameResult |-> ONGOING,
         history |-> <<HistoryEntry(given, NoMove)>>,
         currentHistoryIndex |-> 0,
         playerColor |-> WHITE,
         isThinking |-> FALSE,
         lastMove |-> NoMove,
         isCheck |-> FALSE,
         isCheckmate |-> Len(legalMoves) = 0 /\ isInCheck(given.board, given.sideToMove),
         isStalemate |-> Len(legalMoves) = 0 /\ ~isInCheck(given.board, given.sideToMove),
         isDraw |-> FALSE]

\* The pieces of a colour that are not its king
NonKings(board, color) ==
    {square \in 0..63 : /\ board[square] # NoPiece
                        /\ pieceColor(board[square]) = color
                        /\ pieceType(board[square]) # KING}

LoneMinor(board, color) ==
    /\ Cardinality(NonKings(board, color)) = 1
    /\ \A square \in NonKings(board, color) :
           pieceType(board[square]) \in {BISHOP, KNIGHT}

isInsufficientMaterial(given) ==
    LET whiteNonKings == NonKings(given.board, WHITE)
        blackNonKings == NonKings(given.board, BLACK)
    IN  \/ whiteNonKings = {} /\ blackNonKings = {}
        \/ whiteNonKings = {} /\ LoneMinor(given.board, BLACK)
        \/ blackNonKings = {} /\ LoneMinor(given.board, WHITE)

\* applyMove from the checks on the new position: the flags, the result
\* of the game and the history cut at the current entry and extended
MoveApplied(state, move, newPosition, noMoves, isCheck, insufficient) ==
    [state EXCEPT
        !.position = newPosition,
        !.gameResult =
            IF noMoves /\ isCheck
            THEN (IF state.position.sideToMove = WHITE THEN WHITE_WINS_CHECKMATE
                  ELSE BLACK_WINS_CHECKMATE)
            ELSE IF noMoves /\ ~isCheck THEN DRAW_STALEMATE
            ELSE IF newPosition.halfmoveClock >= 100 THEN DRAW_FIFTY_MOVES
            ELSE IF insufficient THEN DRAW_INSUFFICIENT_MATERIAL
            ELSE ONGOING,
        !.history = Append(SubSeq(state.history, 1, state.currentHistoryIndex + 1),
                           HistoryEntry(newPosition, move)),
        !.currentHistoryIndex = state.currentHistoryIndex + 1,
        !.lastMove = move,
        !.isCheck = isCheck,
        !.isCheckmate = noMoves /\ isCheck,
        !.isStalemate = noMoves /\ ~isCheck,
        !.isDraw = (noMoves /\ ~isCheck) \/ newPosition.halfmoveClock >= 100
                   \/ insufficient]

MoveMade(state, move, newPosition) ==
    MoveApplied(state, move, newPosition,
                Len(generateLegalMoves(newPosition)) = 0,
                isInCheck(newPosition.board, newPosition.sideToMove),
                isInsufficientMaterial(newPosition))

\* applyMove: the state after the move, from the position the state holds
applyMove(state, move) == MoveMade(state, move, makeMove(state.position, move))

\* applyMove throws: the result holds no move (moveToSan reads the fields of
\* null), or findKing does not find a king: in generateLegalMoves, which
\* moveToSan calls for a piece move to tell it from others, or in
\* generateLegalMoves and isInCheck on the new position. generateLegalMoves
\* looks for the king of the side to move after each of its moves, so it
\* can only throw if that king is missing before.
applyMoveThrows(state, move) ==
    \/ move = NoMove
    \/ /\ move.moveType \notin {CASTLING_KINGSIDE, CASTLING_QUEENSIDE}
       /\ pieceType(move.piece) # PAWN
       /\ isInCheckThrows(state.position.board, state.position.sideToMove)
       /\ generateLegalMovesThrows(state.position)
    \/ LET newPosition == makeMove(state.position, move)
       IN  isInCheckThrows(newPosition.board, newPosition.sideToMove)

canUndo(state) ==
    IF state.gameMode = VS_COMPUTER
    THEN state.currentHistoryIndex >= 2 /\ ~state.isThinking
    ELSE state.currentHistoryIndex > 0 /\ ~state.isThinking

canRedo(state) ==
    state.currentHistoryIndex < Len(state.history) - 1 /\ ~state.isThinking

\* The entry undo goes to: the one before and, against the computer, the
\* one before that unless it is the first
UndoIndex(state) ==
    IF state.gameMode = VS_COMPUTER /\ state.currentHistoryIndex - 1 > 0
    THEN state.currentHistoryIndex - 2 ELSE state.currentHistoryIndex - 1

UndoTo(state, newIndex, historyEntry) ==
    [state EXCEPT !.position = historyEntry.position,
                  !.currentHistoryIndex = newIndex,
                  !.gameResult = ONGOING,
                  !.lastMove = IF newIndex > 0 THEN state.history[newIndex].move
                               ELSE NoMove,
                  !.isCheck = isInCheck(historyEntry.position.board,
                                        historyEntry.position.sideToMove),
                  !.isCheckmate = FALSE,
                  !.isStalemate = FALSE,
                  !.isDraw = FALSE]

\* undo once canUndo holds
undo(state) == UndoTo(state, UndoIndex(state), state.history[UndoIndex(state) + 1])

\* redo from the checks on the position of the entry it goes to
Redone(state, newIndex, historyEntry, noMoves, isCheck) ==
    [state EXCEPT !.position = historyEntry.position,
                  !.currentHistoryIndex = newIndex,
                  !.lastMove = historyEntry.move,
                  !.isCheck = isCheck,
                  !.isCheckmate = noMoves /\ isCheck,
                  !.isStalemate = noMoves /\ ~isCheck,
                  !.isDraw = noMoves /\ ~isCheck]

RedoTo(state, newIndex, historyEntry) ==
    Redone(state, newIndex, historyEntry,
           Len(generateLegalMoves(historyEntry.position)) = 0,
           isInCheck(historyEntry.position.board, historyEntry.position.sideToMove))

\* The entry redo goes to: the next one and, against the computer, the one
\* after it if there is one
RedoIndex(state) ==
    IF state.gameMode = VS_COMPUTER
       /\ state.currentHistoryIndex + 1 < Len(state.history) - 1
    THEN state.currentHistoryIndex + 2 ELSE state.currentHistoryIndex + 1

\* redo once canRedo holds
redo(state) == RedoTo(state, RedoIndex(state), state.history[RedoIndex(state) + 1])

\* resign and draw once gameResult is ONGOING
resign(state) ==
    [state EXCEPT !.gameResult = IF state.position.sideToMove = WHITE
                                 THEN WHITE_RESIGNS ELSE BLACK_RESIGNS]

draw(state) == [state EXCEPT !.gameResult = DRAW_AGREEMENT]

\* The move attemptMove(from, to) plays, NoMove if it plays none: the first
\* legal move between the squares, or the first one that promotes to a queen.
FirstMove(moves, wanted(_)) ==
    LET found == {i \in 1..Len(moves) : wanted(moves[i])}
    IN  IF found = {} THEN NoMove
        ELSE moves[CHOOSE i \in found : \A j \in found : i <= j]

attemptedMove(state, from, to) ==
    LET legalMoves == generateLegalMoves(state.position)
        Between(m) == m.from = from /\ m.to = to
    IN  FirstMove(legalMoves, Between)

\* ------------------------------------------------------------------------
\* The game controller at work (the specification ControllerSpec): the calls
\* of its owner, the runs of triggerAiMove, the EngineWorker they share and
\* the worker behind it. controller holds
\*   state            the GameControllerState
\*   tasks            the runs of triggerAiMove started so far, each by where
\*                    it stands: "delay" (the 400 ms), "waiting" (for the
\*                    worker to be ready), "searching" (for the promise of
\*                    search) or "done"
\*   created          getEngineWorker has built the EngineWorker
\*   isReady, waiting, pendingSearch, timers
\*                    the fields of the EngineWorker: the runs that wait for
\*                    readyPromise in the order they came, the run whose
\*                    promise is pending (0 for none) and the timeouts set
\*   toWorker, toMain the messages posted and not yet handled
\*   currentPosition, shouldStop
\*                    the variables of the worker
\*   op               the operation that ran last ("async" for a step that
\*                    leaves the state of the game alone)
\*   applied          the last move of a search result given to applyMove:
\*                    the position it was searched on and the position it
\*                    was applied to
\*   userOps          the calls of newGame, attemptMove, resign and draw so far
\* ------------------------------------------------------------------------

MaxUserOps == 3
MaxTasks == 2

\* 8/8/8/8/8/2k5/2P5/K7 w - - 0 1
KING_AND_PAWN_FEN ==
    FenText(<< <<"8", "/", "8", "/", "8", "/", "8", "/", "8", "/", "2", "k", "5", "/",
                 "2", "P", "5", "/", "K", "7">>,
               <<"w">>, <<"-">>, <<"-">>, <<"0">>, <<"1">> >>)

\* k7/8/1K6/8/8/8/8/7R w - - 0 1
ROOK_MATE_FEN ==
    FenText(<< <<"k", "7", "/", "8", "/", "1", "K", "6", "/", "8", "/", "8", "/", "8", "/",
                 "8", "/", "7", "R">>,
               <<"w">>, <<"-">>, <<"-">>, <<"0">>, <<"1">> >>)

\* The games the owner starts: mode, colour of the player, FEN
NewGames ==
    {<<VS_COMPUTER, BLACK, KING_AND_PAWN_FEN>>,
     <<PASS_AND_PLAY, WHITE, ROOK_MATE_FEN>>}

\* The state newGame sets for each of them, worked out once
StartedGames ==
    [started \in NewGames |->
        NewGameState(parseFenSafe(started[3]), started[1], started[2])]

\* The squares the owner drags a piece between: the rook from h1 to h8 and
\* the black king from c3 to c2 and to d3.
AttemptedMoves == {<<7, 63>>, <<18, 10>>, <<18, 19>>}

NoApplied == [move |-> NoMove]

\* The variables the controller leaves alone
ControllerIs(next) ==
    /\ controller' = next
    /\ UNCHANGED <<game, position, ply, lastMove, lastRejected, perftRun, engine,
                   call, calls, earlier, toWorker, toMain, worker, wrapper, searches,
                   fenRun, tableRun, killerRun, unitRun>>

\* triggerAiMove up to its first await: nothing if a run is thinking, else
\* isThinking is set and the run waits its 400 ms.
triggerAiMove(c) ==
    IF c.state.isThinking THEN c
    ELSE [c EXCEPT !.state.isThinking = TRUE, !.tasks = Append(@, "delay")]

\* The computer is to move
ComputerToMove(state) ==
    state.gameMode = VS_COMPUTER /\ state.position.sideToMove # state.playerColor

\* newGame from the state it set: the computer is triggered if it plays
\* first
GameStarted(started) ==
    IF ComputerToMove(started.state)
    THEN /\ Len(controller.tasks) < MaxTasks
         /\ ControllerIs(triggerAiMove(started))
    ELSE ControllerIs(started)

\* newGame(mode, {playerColor, fen})
NewGame(mode, playerColor, fen) ==
    /\ controller.userOps < MaxUserOps
    /\ GameStarted([controller EXCEPT
                       !.state = StartedGames[<<mode, playerColor, fen>>],
                       !.op = "newGame", !.userOps = @ + 1])

\* makePlayerMove from the state applyMove left
PlayerMoved(moved) ==
    IF moved.state.gameResult = ONGOING /\ ComputerToMove(moved.state)
    THEN /\ Len(controller.tasks) < MaxTasks
         /\ ControllerIs(triggerAiMove(moved))
    ELSE ControllerIs(moved)

PlayerMoves(move) ==
    /\ move # NoMove
    /\ PlayerMoved([controller EXCEPT !.state = applyMove(@, move),
                                      !.op = "attemptMove", !.userOps = @ + 1])

\* attemptMove(from, to) that returns true: makePlayerMove applies the move
\* and triggers the computer if it is to move in a game that goes on.
AttemptMove(from, to) ==
    /\ controller.userOps < MaxUserOps
    /\ ~controller.state.isThinking
    /\ controller.state.gameResult = ONGOING
    /\ ~ComputerToMove(controller.state)
    /\ PlayerMoves(attemptedMove(controller.state, from, to))

Undo ==
    /\ canUndo(controller.state)
    /\ ControllerIs([controller EXCEPT !.state = undo(@), !.op = "undo"])

Redo ==
    /\ canRedo(controller.state)
    /\ ControllerIs([controller EXCEPT !.state = redo(@), !.op = "redo"])

Resign ==
    /\ controller.userOps < MaxUserOps
    /\ controller.state.gameResult = ONGOING
    /\ ControllerIs([controller EXCEPT !.state = resign(@), !.op = "resign",
                                       !.userOps = @ + 1])

Draw ==
    /\ controller.userOps < MaxUserOps
    /\ controller.state.gameResult = ONGOING
    /\ ControllerIs([controller EXCEPT !.state = draw(@), !.op = "draw",
                                       !.userOps = @ + 1])

\* EngineWorker.stop
WrapperStop(c) ==
    [c EXCEPT !.toWorker = Append(@, [type |-> "stop"]),
              !.timers = @ \ {c.pendingSearch},
              !.pendingSearch = 0]

\* EngineWorker.search from the return of waitForReady, for run id: a
\* pending search is stopped, the timeout is set, the promise of the run is
\* the pending one and 'search' is posted.
WrapperSearch(c, id) ==
    LET free == IF c.pendingSearch # 0 THEN WrapperStop(c) ELSE c
    IN  [free EXCEPT !.timers = @ \cup {id},
                     !.pendingSearch = id,
                     !.toWorker = Append(@, [type |-> "search"]),
                     !.tasks[id] = "searching"]

\* getEngineWorker: the first call builds the EngineWorker, whose worker
\* posts 'init' as it loads.
getEngineWorker(c) ==
    IF c.created THEN c
    ELSE [c EXCEPT !.created = TRUE,
                   !.toMain = Append(@, [type |-> "init", success |-> TRUE])]

\* worker.search(options) of run id once the position is posted: it goes on
\* at once if the worker is ready and waits for readyPromise if not.
PositionPosted(id, posted) ==
    ControllerIs(IF posted.isReady THEN WrapperSearch(posted, id)
                 ELSE [posted EXCEPT !.tasks[id] = "waiting",
                                     !.waiting = Append(@, id)])

\* triggerAiMove of run id after its 400 ms: the FEN of the position the
\* state holds now goes to the worker and search is called.
DelayElapsed(id) ==
    /\ id \in 1..Len(controller.tasks)
    /\ controller.tasks[id] = "delay"
    /\ PositionPosted(id, [getEngineWorker(controller) EXCEPT
                              !.toWorker = Append(@, [type |-> "setPosition",
                                                      fen |-> toFen(controller.state.position)]),
                              !.op = "async"])

\* The runs that waited for readyPromise go on in the order they came.
RECURSIVE ResumeWaiting(_)
ResumeWaiting(c) ==
    IF c.waiting = <<>> THEN c
    ELSE ResumeWaiting(WrapperSearch([c EXCEPT !.waiting = Tail(@)], Head(c.waiting)))

\* The first and the last of a list of moves
FirstAndLast(moves) == {moves[1], moves[Len(moves)]}

\* The states the catch block of triggerAiMove can leave: a random legal
\* move of the position the state holds is applied if there is one. The
\* draws of Math.random are the least and the greatest, so the move is the
\* first or the last of the list.
FallbackMoves(state, legalMoves) ==
    IF legalMoves = <<>> THEN {state}
    ELSE {IF applyMoveThrows(state, move) THEN state ELSE applyMove(state, move) :
            move \in FirstAndLast(legalMoves)}

FallbackStates(state) ==
    IF /\ isInCheckThrows(state.position.board, state.position.sideToMove)
       /\ generateLegalMovesThrows(state.position)
    THEN {state}
    ELSE FallbackMoves(state, generateLegalMoves(state.position))

\* triggerAiMove of run id from the rejection of its promise
Rejected(c, id, next) ==
    [c EXCEPT !.state = [next EXCEPT !.isThinking = FALSE],
              !.tasks[id] = "done",
              !.op = IF next.position = c.state.position THEN "aiNone"
                     ELSE "fallbackMove"]

\* triggerAiMove of run id from the resolution of its promise with a result
\* the worker found on the position searched, when applyMove does not throw
Resolved(c, id, result) ==
    [c EXCEPT !.state = [applyMove(c.state, result.bestMove)
                            EXCEPT !.isThinking = FALSE],
              !.tasks[id] = "done",
              !.op = "aiMove",
              !.applied = [move |-> result.bestMove,
                           searched |-> result.searched,
                           appliedTo |-> c.state.position]]

\* handleMessage on a result while the promise of run id is pending: it is
\* resolved, and triggerAiMove goes on from its await.
ResultTaken(settled, id, result) ==
    IF applyMoveThrows(settled.state, result.bestMove)
    THEN \E next \in FallbackStates(settled.state) :
             ControllerIs(Rejected(settled, id, next))
    ELSE ControllerIs(Resolved(settled, id, result))

MessageTaken(message, taken) ==
    IF message.type = "init"
    THEN ControllerIs(ResumeWaiting([taken EXCEPT !.isReady = message.success]))
    ELSE IF taken.pendingSearch = 0 THEN ControllerIs(taken)
    ELSE ResultTaken([taken EXCEPT !.timers = @ \ {taken.pendingSearch},
                                   !.pendingSearch = 0],
                     taken.pendingSearch, message)

\* EngineWorker.handleMessage on the next message from the worker, and what
\* the runs of triggerAiMove that were waiting for it do next
HandleMessage ==
    /\ controller.mode = "run"
    /\ controller.toMain # <<>>
    /\ MessageTaken(Head(controller.toMain),
                    [controller EXCEPT !.toMain = Tail(@), !.op = "async"])

\* The timeout search() set for run id fires: stop(), then the promise is
\* rejected.
ControllerSearchTimeout(id) ==
    /\ controller.mode = "run"
    /\ id \in controller.timers
    /\ \E next \in FallbackStates(controller.state) :
           ControllerIs(Rejected([WrapperStop(controller) EXCEPT !.timers = @ \ {id}],
                                 id, next))

\* The results calculateAiMove can return on a position: a legal move if
\* there is one (the first and the last of the list stand for them), no
\* move else
SearchResults(given) ==
    IF generateLegalMoves(given) = <<>> THEN {NoMove}
    ELSE FirstAndLast(generateLegalMoves(given))

WorkerTakes(message, taken) ==
    CASE message.type = "setPosition" ->
           ControllerIs([taken EXCEPT !.currentPosition = parseFenSafe(message.fen)])
      [] message.type = "stop" ->
           ControllerIs([taken EXCEPT !.shouldStop = TRUE])
      [] OTHER ->
           \E bestMove \in SearchResults(controller.currentPosition) :
               ControllerIs([taken EXCEPT
                   !.shouldStop = FALSE,
                   !.toMain = Append(@, [type |-> "result",
                                         bestMove |-> bestMove,
                                         searched |-> controller.currentPosition])])

\* The worker handles the next message posted to it. handleSearch runs
\* calculateAiMove to its end before another message is looked at, so
\* isSearching is false and shouldStop is as handleSearch set it when the
\* result is posted.
WorkerHandleMessage ==
    /\ controller.mode = "run"
    /\ controller.toWorker # <<>>
    /\ WorkerTakes(Head(controller.toWorker),
                   [controller EXCEPT !.toWorker = Tail(@), !.op = "async"])

InitController ==
    /\ game = "start"
    /\ position = createStartingPosition
    /\ ply = 0
    /\ lastMove = NoMove
    /\ lastRejected = 0
    /\ perftRun = NoPerft
    /\ engine = NewEngine
    /\ call = NoCall
    /\ calls = 0
    /\ earlier = {}
    /\ WorkerStarted
    /\ fenRun = NoFenRun
    /\ tableRun = NoTableRun
    /\ killerRun = NoKillerRun
    /\ unitRun = NoUnitRun
    /\ controller = [mode |-> "run", state |-> createInitialState, tasks |-> <<>>,
                     created |-> FALSE, isReady |-> FALSE, waiting |-> <<>>,
                     pendingSearch |-> 0, timers |-> {},
                     toWorker |-> <<>>, toMain |-> <<>>,
                     currentPosition |-> createStartingPosition, shouldStop |-> FALSE,
                     op |-> "none", applied |-> NoApplied, userOps |-> 0]

NextController ==
    \/ \E started \in NewGames : NewGame(started[1], started[2], started[3])
    \/ \E squares \in AttemptedMoves : AttemptMove(squares[1], squares[2])
    \/ Undo
    \/ Redo
    \/ Resign
    \/ Draw
    \/ \E id \in 1..MaxTasks : DelayElapsed(id)
    \/ HandleMessage
    \/ \E id \in 1..MaxTasks : ControllerSearchTimeout(id)
    \/ WorkerHandleMessage

ControllerSpec == InitController /\ [][NextController]_vars

\* C25: against the computer every undo that goes through steps back over
\* the move of the computer and the move of the player, so that right after
\* it the side to move is the colour of the player.
C25_UndoLeavesPlayerToMove ==
    (/\ controller.mode = "run"
     /\ controller.op = "undo"
     /\ controller.state.gameMode = VS_COMPUTER)
        => controller.state.position.sideToMove = controller.state.playerColor

\* C26: every move the controller applies as the move of the computer was
\* found by the engine on the very position it is applied to, also when
\* newGame or another search comes while a search is pending.
C26_AiMoveForPositionSearched ==
    (controller.mode = "run" /\ controller.applied # NoApplied)
        => controller.applied.searched = controller.applied.appliedTo

\* A step taken once the game is over, other than newGame and undo, applies
\* no move and keeps gameResult.
EndedGameKept ==
    (/\ controller.mode = "run"
     /\ controller.state.gameResult # ONGOING
     /\ controller'.op \notin {"newGame", "undo"})
        => /\ controller'.state.gameResult = controller.state.gameResult
           /\ controller'.op \notin {"attemptMove", "aiMove", "fallbackMove"}

\* C27: once gameResult is not ONGOING no move is applied and gameResult
\* does not change until newGame or undo is called, also when resign or
\* draw is called while the computer is thinking.
C27_EndedGameStaysEnded == [][EndedGameKept]_vars

\* C28: in every state of the controller, after any undo and redo too,
\* isCheckmate holds exactly when gameResult is a win by checkmate and
\* isStalemate exactly when gameResult is DRAW_STALEMATE.
C28_FlagsMatchResult ==
    controller.mode = "run" =>
        /\ controller.state.isCheckmate
               <=> controller.state.gameResult \in {WHITE_WINS_CHECKMATE,
                                                    BLACK_WINS_CHECKMATE}
        /\ controller.state.isStalemate
               <=> controller.state.gameResult = DRAW_STALEMATE

\* ------------------------------------------------------------------------
\* alphaBeta entered in the middle of a search (the specification StopSpec)
\* ------------------------------------------------------------------------
\* The nodes counted before the call: none, or so many that the next time
\* check (at a multiple of TIME_CHECK_INTERVAL) falls inside the call.
MaxNodesBefore == 12
StopNodeCounts ==
    {0} \cup ((TIME_CHECK_INTERVAL - MaxNodesBefore)..(TIME_CHECK_INTERVAL - 1))

\* The time checks the clock still passes, NoCutoff when it outlasts the call.
ChecksLeft == {NoCutoff, 1}

\* The windows of the call: the one of the root, and a narrow one.
StopWindows == {<<-Infinity, Infinity>>, <<-100, 100>>}

\* The node entered: the position searched, or the one after its first
\* legal move.
StopNode(name, nodePly) ==
    IF nodePly = 0 THEN SearchPosition(name)
    ELSE makeMove(SearchPosition(name), generateLegalMoves(SearchPosition(name))[1])

\* The tables when the node is entered: new, or as a search of the position
\* to depth 1 left them.
StopTables(name) ==
    {NewEngine, search(SearchPosition(name), 1, NoCutoff, NewEngine).engine}

\* The search state when the node is entered: nodes nodes counted, the time
\* check at the start of the search made if any node is counted, and left
\* time checks to pass.
EnteredState(nodes, left, tables) ==
    [createSearchState(IF left = NoCutoff THEN NoCutoff
                       ELSE (IF nodes = 0 THEN 0 ELSE 1) + left, tables)
        EXCEPT !.nodesSearched = nodes,
               !.timeChecks = IF nodes = 0 THEN 0 ELSE 1]

\* The calls of alphaBeta made.
StopRun(node, nodePly, depth, window, entered) ==
    [unit |-> "alphaBeta", done |-> FALSE, position |-> node,
     depth |-> depth, alpha |-> window[1], beta |-> window[2], ply |-> nodePly,
     state |-> entered, score |-> 0, after |-> entered]

StopRunsAt(name, nodePly) ==
    {StopRun(StopNode(name, nodePly), nodePly, depth, window,
             EnteredState(nodes, left, tables)) :
        depth \in 1..MaxSearchDepth, window \in StopWindows,
        nodes \in StopNodeCounts \ (IF nodePly = 0 THEN {} ELSE {0}),
        left \in ChecksLeft, tables \in StopTables(name)}

StopRuns ==
    UNION {StopRunsAt(name, nodePly) :
               name \in {"mateInOne", "pawnTension"}, nodePly \in {0, 1}}

AlphaBetaReturned(returned) ==
    /\ unitRun' = [unitRun EXCEPT !.done = TRUE, !.score = returned.score,
                                  !.after = returned.state]
    /\ UNCHANGED <<game, position, ply, lastMove, lastRejected, perftRun, engine, call,
                   calls, earlier, toWorker, toMain, worker, wrapper, searches,
                   fenRun, tableRun, killerRun, controller>>

\* alphaBeta
AlphaBetaCalled ==
    /\ unitRun.unit = "alphaBeta"
    /\ ~unitRun.done
    /\ AlphaBetaReturned(alphaBeta(unitRun.position, unitRun.depth, unitRun.alpha,
                                   unitRun.beta, unitRun.ply, unitRun.state))

InitStop ==
    /\ game = "start"
    /\ position = createStartingPosition
    /\ ply = 0
    /\ lastMove = NoMove
    /\ lastRejected = 0
    /\ perftRun = NoPerft
    /\ engine = NewEngine
    /\ call = NoCall
    /\ calls = 0
    /\ earlier = {}
    /\ WorkerStarted
    /\ fenRun = NoFenRun
    /\ tableRun = NoTableRun
    /\ killerRun = NoKillerRun
    /\ controller = NoController
    /\ unitRun \in StopRuns

NextStop == AlphaBetaCalled

StopSpec == InitStop /\ [][NextStop]_vars

\* The node type of an entry stored with the score in the window.
StoredNodeType(score, alpha, beta) ==
    IF score >= beta THEN "lowerBound"
    ELSE IF score > alpha THEN "exact" ELSE "upperBound"

\* The entry of the node called is as it was before the call.
NodeEntryKept(run) ==
    TTProbe(run.after.transpositionTable, computeHash(run.position))
        = TTProbe(run.state.transpositionTable, computeHash(run.position))

\* The entry of the node called is the one the node stores at its end: its
\* depth, the score it returns, the node type of that score in its window
\* and one of its legal moves.
NodeEntryOfFullLoop(run, entry) ==
    /\ entry.depth = run.depth
    /\ entry.evaluation = run.score
    /\ entry.nodeType = StoredNodeType(run.score, run.alpha, run.beta)
    /\ entry.bestMove \in MovesOf(generateLegalMoves(run.position))

\* C30: alphaBeta writes no transposition-table entry for a node whose
\* search the stop flag cut short: when the call returns with shouldStop set
\* the entry of its node is as before, and an entry it wrote holds the depth,
\* score, node type and best move of a move loop that ran to its end or to a
\* beta cutoff with shouldStop unset.
C30_NoStoreFromStoppedNode ==
    (unitRun.unit = "alphaBeta" /\ unitRun.done) =>
        /\ unitRun.after.shouldStop => NodeEntryKept(unitRun)
        /\ ~NodeEntryKept(unitRun) =>
               /\ ~unitRun.after.shouldStop
               /\ NodeEntryOfFullLoop(unitRun,
                      TTProbe(unitRun.after.transpositionTable,
                              computeHash(unitRun.position)))

\* A call stopped inside its move loop, after a node below it had run to
\* its end and stored its entry; the node called has written none.
C30_Witness ==
    /\ unitRun.unit = "alphaBeta"
    /\ unitRun.done
    /\ unitRun.after.shouldStop
    /\ unitRun.after.nodesSearched > unitRun.state.nodesSearched + 1
    /\ unitRun.after.transpositionTable # unitRun.state.transpositionTable
    /\ NodeEntryKept(unitRun)

====
